---- MODULE Spec2Model ----
(***************************************************************************)
(* Model of the rust-binance client: the streaming receive loop and event  *)
(* decoders (futures and spot), the HTTP clients with their signing and    *)
(* response decoding, concurrent signed calls, and Interval.               *)
(***************************************************************************)
EXTENDS Integers, Sequences, FiniteSets, TLC

(***************************************************************************)
(* Rust's Result and Option.                                               *)
(***************************************************************************)
Ok(x) == <<"Ok", x>>
Err(e) == <<"Err", e>>
IsOk(r) == r[1] = "Ok"
IsErr(r) == r[1] = "Err"
Some(x) == <<"Some", x>>
None == <<"None">>

(***************************************************************************)
(* serde_json::Value.  A tagged tuple; an object is a function from its    *)
(* keys to values.  Numbers are integers (JNum) or non-integers (JFloat,   *)
(* counted in halves, always odd).                                         *)
(***************************************************************************)
JNull == <<"null">>
JBool(b) == <<"bool", b>>
JNum(n) == <<"number", n>>
JFloat(h) == <<"float", h>>
JStr(s) == <<"string", s>>
JArr(a) == <<"array", a>>
JObj(f) == <<"object", f>>

\* Value::is_string / Value::as_str
is_string(v) == v[1] = "string"

\* impl Index<&str> for Value: Null unless the value is an object holding the key.
\* value[k].take() hands out the same value.
Index(v, k) == IF v[1] = "object" /\ k \in DOMAIN v[2] THEN v[2][k] ELSE JNull

\* The object o without key k, and with key k set to v (builders of inputs).
Drop(o, k) == JObj([x \in DOMAIN o[2] \ {k} |-> o[2][x]])
Put(o, k, v) == JObj([x \in DOMAIN o[2] \cup {k} |-> IF x = k THEN v ELSE o[2][x]])

(***************************************************************************)
(* A frame text: either a JSON document (with a layout variant, which      *)
(* parsing ignores) or a text that is not JSON.                            *)
(***************************************************************************)
JsonText(v, layout) == <<"json", v, layout>>
BadText(s) == <<"invalid", s>>

\* serde_json::from_str::<Value>
from_str(text) == IF text[1] = "json" THEN Ok(text[2]) ELSE Err("syntax")

\* str::parse::<f64> on the strings the inputs use, in halves.
parse_f64(s) ==
    CASE s = "0" -> Ok(0)
      [] s = "568" -> Ok(1136)
      [] s = "0.5" -> Ok(1)
      [] OTHER -> Err("invalid float literal")

(***************************************************************************)
(* The typed shapes (#[derive(Deserialize)] structs).  A field is          *)
(* <<key, kind, type>>; kind "prim" is a scalar rule, "struct" a nested    *)
(* struct, "vec" a Vec of a struct.                                        *)
(***************************************************************************)
KlineEventFields ==
    << <<"e", "prim", "String">>, <<"E", "prim", "f64">>, <<"s", "prim", "String">>, <<"k", "struct", "Kline">> >>

KlineFields ==
    << <<"t", "prim", "f64">>, <<"T", "prim", "f64">>, <<"s", "prim", "String">>, <<"i", "prim", "String">>,
       <<"o", "prim", "f64_string">>, <<"c", "prim", "f64_string">>, <<"h", "prim", "f64_string">>,
       <<"l", "prim", "f64_string">>, <<"v", "prim", "f64_string">>, <<"n", "prim", "u64">>,
       <<"q", "prim", "f64_string">>, <<"V", "prim", "f64_string">>, <<"Q", "prim", "f64_string">>,
       <<"x", "prim", "bool">> >>

AggTradeFields ==
    << <<"e", "prim", "String">>, <<"E", "prim", "f64">>, <<"s", "prim", "String">>, <<"a", "prim", "u64">>,
       <<"p", "prim", "f64_string">>, <<"q", "prim", "f64_string">>, <<"f", "prim", "u64">>, <<"l", "prim", "u64">>,
       <<"T", "prim", "u64">>, <<"m", "prim", "bool">> >>

OrderTradeUpdateEventFields ==
    << <<"e", "prim", "String">>, <<"E", "prim", "f64">>, <<"T", "prim", "f64">>, <<"o", "struct", "OrderTradeUpdate">> >>

OrderTradeUpdateFields ==
    << <<"s", "prim", "String">>, <<"c", "prim", "String">>, <<"S", "prim", "String">>, <<"o", "prim", "String">>,
       <<"f", "prim", "String">>, <<"q", "prim", "f64_string">>, <<"p", "prim", "f64_string">>,
       <<"ap", "prim", "f64_string">>, <<"sp", "prim", "f64_string">>, <<"x", "prim", "String">>,
       <<"X", "prim", "String">>, <<"i", "prim", "u64">>, <<"l", "prim", "f64_string">>, <<"z", "prim", "f64_string">>,
       <<"L", "prim", "f64_string">>, <<"N", "prim", "default Option<String>">>,
       <<"n", "prim", "default opt_f64_string">>, <<"T", "prim", "u64">>, <<"t", "prim", "u64">>,
       <<"b", "prim", "f64_string">>, <<"a", "prim", "f64_string">>, <<"m", "prim", "bool">>, <<"R", "prim", "bool">>,
       <<"wt", "prim", "String">>, <<"ot", "prim", "String">>, <<"ps", "prim", "String">>, <<"cp", "prim", "bool">>,
       <<"AP", "prim", "default opt_f64_string">>, <<"cr", "prim", "default opt_f64_string">>,
       <<"rp", "prim", "f64_string">> >>

FuturesAccountUpdateFields ==
    << <<"e", "prim", "String">>, <<"E", "prim", "u64">>, <<"T", "prim", "u64">>, <<"a", "struct", "AccountUpdateData">> >>

AccountUpdateDataFields ==
    << <<"m", "prim", "String">>, <<"B", "vec", "AccountUpdateBalances">>, <<"P", "vec", "AccountUpdatePosition">> >>

AccountUpdateBalancesFields ==
    << <<"a", "prim", "String">>, <<"wb", "prim", "f64_string">>, <<"cw", "prim", "f64_string">> >>

AccountUpdatePositionFields ==
    << <<"s", "prim", "String">>, <<"pa", "prim", "f64_string">>, <<"ep", "prim", "f64_string">>,
       <<"cr", "prim", "f64_string">>, <<"up", "prim", "f64_string">>, <<"mt", "prim", "String">>,
       <<"iw", "prim", "f64_string">>, <<"ps", "prim", "String">> >>

LiquidationEventFields ==
    << <<"s", "prim", "String">>, <<"S", "prim", "String">>, <<"o", "prim", "String">>, <<"f", "prim", "String">>,
       <<"q", "prim", "f64_string">>, <<"p", "prim", "f64_string">>, <<"ap", "prim", "f64_string">>,
       <<"X", "prim", "String">>, <<"l", "prim", "f64_string">>, <<"z", "prim", "f64_string">>, <<"T", "prim", "u64">> >>

TickerFields ==
    << <<"e", "prim", "String">>, <<"E", "prim", "u64">>, <<"s", "prim", "String">>, <<"p", "prim", "f64_string">>,
       <<"P", "prim", "f64_string">>, <<"w", "prim", "f64_string">>, <<"c", "prim", "f64_string">>,
       <<"Q", "prim", "f64_string">>, <<"o", "prim", "f64_string">>, <<"h", "prim", "f64_string">>,
       <<"l", "prim", "f64_string">>, <<"v", "prim", "f64_string">>, <<"q", "prim", "f64_string">>,
       <<"O", "prim", "u64">>, <<"C", "prim", "u64">>, <<"F", "prim", "u64">>, <<"L", "prim", "u64">>, <<"n", "prim", "u64">> >>

\* spot::websocket::ExecutionReport; the flattened `other` map is added by Flattened.
ExecutionReportFields ==
    << <<"e", "prim", "String">>, <<"E", "prim", "u64">>, <<"s", "prim", "String">>, <<"c", "prim", "String">>,
       <<"S", "prim", "String">>, <<"o", "prim", "String">>, <<"f", "prim", "String">>, <<"q", "prim", "f64_string">>,
       <<"p", "prim", "f64_string">>, <<"P", "prim", "f64_string">>, <<"F", "prim", "f64_string">>,
       <<"C", "prim", "String">>, <<"x", "prim", "String">>, <<"X", "prim", "String">>, <<"r", "prim", "String">>,
       <<"i", "prim", "u64">>, <<"l", "prim", "f64_string">>, <<"z", "prim", "f64_string">>,
       <<"L", "prim", "f64_string">>, <<"n", "prim", "f64_string">>, <<"N", "prim", "Option<String>">>,
       <<"T", "prim", "u64">>, <<"t", "prim", "i64">>, <<"I", "prim", "i64">>, <<"w", "prim", "bool">>, <<"m", "prim", "bool">>,
       <<"M", "prim", "bool">>, <<"O", "prim", "u64">>, <<"Z", "prim", "f64_string">>, <<"Y", "prim", "f64_string">>,
       <<"Q", "prim", "f64_string">> >>

SpotAccountUpdateFields ==
    << <<"e", "prim", "String">>, <<"E", "prim", "u64">>, <<"u", "prim", "u64">>, <<"B", "vec", "AccountUpdateBalance">> >>

AccountUpdateBalanceFields ==
    << <<"a", "prim", "String">>, <<"f", "prim", "f64_string">>, <<"l", "prim", "f64_string">> >>

\* futures::client::ApiError; `other` is flattened.
ApiErrorFields == << <<"code", "prim", "i64">>, <<"msg", "prim", "String">> >>

\* common::client::ListenKeyResponse
ListenKeyResponseFields == << <<"listenKey", "prim", "String">> >>

\* futures::client::CancelOrderResponse; `other` is flattened.
CancelOrderResponseFields ==
    << <<"orderId", "prim", "u64">>, <<"symbol", "prim", "String">>, <<"status", "prim", "String">>,
       <<"clientOrderId", "prim", "String">>, <<"price", "prim", "f64_string">>,
       <<"avgPrice", "prim", "f64_string">> >>

\* futures::client::PositionModeResponse
PositionModeResponseFields == << <<"dualSidePosition", "prim", "bool">> >>

\* futures::client::OrderResponse; `other` is flattened.
FuturesOrderResponseFields ==
    << <<"clientOrderId", "prim", "String">>, <<"cumQty", "prim", "f64_string">>,
       <<"cumQuote", "prim", "f64_string">>, <<"executedQty", "prim", "f64_string">>,
       <<"orderId", "prim", "u64">>, <<"avgPrice", "prim", "f64_string">>, <<"origQty", "prim", "f64_string">>,
       <<"price", "prim", "f64_string">>, <<"reduceOnly", "prim", "bool">>, <<"side", "prim", "String">>,
       <<"positionSide", "prim", "String">>, <<"status", "prim", "String">>,
       <<"stopPrice", "prim", "f64_string">>, <<"closePosition", "prim", "bool">>,
       <<"symbol", "prim", "String">>, <<"timeInForce", "prim", "String">>, <<"type", "prim", "String">>,
       <<"origType", "prim", "String">>, <<"activatePrice", "prim", "default opt_f64_string">>,
       <<"priceRate", "prim", "default opt_f64_string">>, <<"updateTime", "prim", "u64">>,
       <<"workingType", "prim", "String">>, <<"priceProtect", "prim", "bool">> >>

\* spot::client::OrderResponse
SpotOrderResponseFields ==
    << <<"symbol", "prim", "String">>, <<"orderId", "prim", "u64">>, <<"orderListId", "prim", "i64">>,
       <<"clientOrderId", "prim", "String">>, <<"transactTime", "prim", "u64">>,
       <<"price", "prim", "f64_string">>, <<"origQty", "prim", "f64_string">>,
       <<"executedQty", "prim", "f64_string">>, <<"cummulativeQuoteQty", "prim", "f64_string">>,
       <<"status", "prim", "String">>, <<"timeInForce", "prim", "String">>, <<"type", "prim", "String">>,
       <<"side", "prim", "String">>, <<"fills", "prim", "Vec<Value>">> >>

\* types::BookTickerResponse
BookTickerResponseFields ==
    << <<"symbol", "prim", "String">>, <<"bidPrice", "prim", "f64_string">>, <<"bidQty", "prim", "f64_string">>,
       <<"askPrice", "prim", "f64_string">>, <<"askQty", "prim", "f64_string">>, <<"time", "prim", "Option<u64>">> >>

Fields(name) ==
    CASE name = "KlineEvent" -> KlineEventFields
      [] name = "Kline" -> KlineFields
      [] name = "AggTrade" -> AggTradeFields
      [] name = "OrderTradeUpdateEvent" -> OrderTradeUpdateEventFields
      [] name = "OrderTradeUpdate" -> OrderTradeUpdateFields
      [] name = "futures::AccountUpdate" -> FuturesAccountUpdateFields
      [] name = "AccountUpdateData" -> AccountUpdateDataFields
      [] name = "AccountUpdateBalances" -> AccountUpdateBalancesFields
      [] name = "AccountUpdatePosition" -> AccountUpdatePositionFields
      [] name = "LiquidationEvent" -> LiquidationEventFields
      [] name = "Ticker" -> TickerFields
      [] name = "ExecutionReport" -> ExecutionReportFields
      [] name = "spot::AccountUpdate" -> SpotAccountUpdateFields
      [] name = "AccountUpdateBalance" -> AccountUpdateBalanceFields
      [] name = "ApiError" -> ApiErrorFields
      [] name = "ListenKeyResponse" -> ListenKeyResponseFields
      [] name = "CancelOrderResponse" -> CancelOrderResponseFields
      [] name = "PositionModeResponse" -> PositionModeResponseFields
      [] name = "futures::OrderResponse" -> FuturesOrderResponseFields
      [] name = "spot::OrderResponse" -> SpotOrderResponseFields
      [] name = "BookTickerResponse" -> BookTickerResponseFields

\* The structs with a #[serde(flatten)] map collecting the unnamed keys.
Flattened == {"ExecutionReport", "ApiError", "CancelOrderResponse", "futures::OrderResponse"}

(***************************************************************************)
(* Deserialization of a Value into a typed shape (serde_json::from_value). *)
(* Typed values are tagged tuples; f64 is counted in halves.               *)
(***************************************************************************)
\* A scalar field: the rule of its Rust type or of its deserialize_with helper.
DeserPrim(t, v) ==
    CASE t = "String" ->
            IF v[1] = "string" THEN Ok(<<"String", v[2]>>) ELSE Err("invalid type")
      [] t = "f64" ->
            IF v[1] = "number" THEN Ok(<<"f64", 2 * v[2]>>)
            ELSE IF v[1] = "float" THEN Ok(<<"f64", v[2]>>)
            ELSE Err("invalid type")
      [] t = "u64" ->
            IF v[1] = "number" /\ v[2] >= 0 THEN Ok(<<"u64", v[2]>>)
            ELSE IF v[1] = "number" THEN Err("invalid value")
            ELSE Err("invalid type")
      [] t = "i64" ->
            IF v[1] = "number" THEN Ok(<<"i64", v[2]>>) ELSE Err("invalid type")
      [] t = "bool" ->
            IF v[1] = "bool" THEN Ok(<<"bool", v[2]>>) ELSE Err("invalid type")
      [] t = "f64_string" ->
            \* parsers::parse_f64_string
            IF v[1] # "string" THEN Err("invalid type")
            ELSE IF IsOk(parse_f64(v[2])) THEN Ok(<<"f64", parse_f64(v[2])[2]>>)
            ELSE Err("invalid float literal")
      [] t = "default opt_f64_string" ->
            \* parsers::parse_opt_f64_string
            IF v[1] # "string" THEN Err("invalid type")
            ELSE IF IsOk(parse_f64(v[2])) THEN Ok(Some(<<"f64", parse_f64(v[2])[2]>>))
            ELSE Err("invalid float literal")
      [] t \in {"Option<String>", "default Option<String>"} ->
            IF v[1] = "null" THEN Ok(None)
            ELSE IF v[1] = "string" THEN Ok(Some(<<"String", v[2]>>))
            ELSE Err("invalid type")
      [] t = "Option<u64>" ->
            IF v[1] = "null" THEN Ok(None)
            ELSE IF v[1] = "number" /\ v[2] >= 0 THEN Ok(Some(<<"u64", v[2]>>))
            ELSE Err("invalid type")
      [] t = "Vec<Value>" ->
            IF v[1] = "array" THEN Ok(<<"vec", v[2]>>) ELSE Err("invalid type")

\* A field that may be absent from the object: it then holds None.
MayBeAbsent(f) ==
    /\ f[2] = "prim"
    /\ f[3] \in {"Option<String>", "default Option<String>", "default opt_f64_string",
                 "Option<u64>"}

RECURSIVE from_value(_, _)
\* One field of a struct, from the value stored under its key.
DeserField(f, v) ==
    CASE f[2] = "prim" -> DeserPrim(f[3], v)
      [] f[2] = "struct" -> from_value(f[3], v)
      [] f[2] = "vec" ->
            IF v[1] # "array" THEN Err("invalid type")
            ELSE LET rs == [i \in 1..Len(v[2]) |-> from_value(f[3], v[2][i])]
                 IN IF \E i \in 1..Len(rs) : IsErr(rs[i])
                    THEN Err("invalid element")
                    ELSE Ok(<<"vec", [i \in 1..Len(rs) |-> rs[i][2]]>>)

\* serde_json::from_value::<name>(v).  An object gives the struct when every
\* key it holds of the struct has the right type and no required key is
\* absent; unknown keys are ignored (or kept in `other` when flattened).  An
\* array is read positionally and needs one element per field.
from_value(name, v) ==
    LET fs == Fields(name)
        keys == {fs[i][1] : i \in 1..Len(fs)}
        fld(k) == fs[CHOOSE i \in 1..Len(fs) : fs[i][1] = k]
    IN  IF v[1] = "object"
        THEN LET o == v[2]
                 bad == \E k \in keys \cap DOMAIN o : IsErr(DeserField(fld(k), o[k]))
                 missing == \E k \in keys \ DOMAIN o : ~MayBeAbsent(fld(k))
                 typed == [k \in keys |-> IF k \in DOMAIN o
                                           THEN DeserField(fld(k), o[k])[2]
                                           ELSE None]
                 other == [k \in DOMAIN o \ keys |-> o[k]]
             IN  IF bad THEN Err("invalid field")
                 ELSE IF missing THEN Err("missing field")
                 ELSE IF name \in Flattened THEN Ok(<<"struct", name, typed, other>>)
                 ELSE Ok(<<"struct", name, typed>>)
        ELSE IF v[1] = "array" /\ name \notin Flattened
        THEN LET a == v[2]
             IN  IF Len(a) # Len(fs) THEN Err("invalid length")
                 ELSE IF \E i \in 1..Len(fs) : IsErr(DeserField(fs[i], a[i]))
                 THEN Err("invalid field")
                 ELSE Ok(<<"struct", name, [k \in keys |->
                        DeserField(fld(k), a[CHOOSE i \in 1..Len(fs) : fs[i][1] = k])[2]]>>)
        ELSE Err("invalid type")

(***************************************************************************)
(* WebSocket frames (tungstenite::Message) and the decoded events.         *)
(***************************************************************************)
Text(t) == <<"Text", t>>
Ping(d) == <<"Ping", d>>
Pong(d) == <<"Pong", d>>
Binary(d) == <<"Binary", d>>
Frame(d) == <<"Frame", d>>
Close == <<"Close", None>>

\* The outcome of a call that panics (unreachable!(), unwrap() on None).
Panic(why) == <<"panic", why>>

\* futures::websocket::Event
FuturesVariants ==
    {"Message", "Kline", "AggTrade", "OrderTradeUpdate", "AccountUpdate",
     "LiquidationEvent", "Ticker", "ParseError", "Unknown", "Ping"}

\* spot::websocket::Event
SpotVariants == {"ExecutionReport", "AccountUpdate", "Message"}

\* Ok(Some(Event::<variant>(from_value(..)?))): the `?` hands the error on.
Typed(variant, r) == IF IsErr(r) THEN r ELSE Ok(Some(<<variant, r[2]>>))

\* decode_data with the arms of "kline" and "aggTrade" exchanged.
decode_data_swapped(value) ==
    LET e == Index(value, "e")
    IN  IF is_string(e)
        THEN CASE e[2] = "aggTrade" -> Typed("Kline", from_value("KlineEvent", value))
               [] e[2] = "kline" -> Typed("AggTrade", from_value("AggTrade", value))
               [] e[2] = "ORDER_TRADE_UPDATE" ->
                      Typed("OrderTradeUpdate", from_value("OrderTradeUpdateEvent", value))
               [] e[2] = "ACCOUNT_UPDATE" ->
                      Typed("AccountUpdate", from_value("futures::AccountUpdate", value))
               [] e[2] = "forceOrder" ->
                      Typed("LiquidationEvent", from_value("LiquidationEvent", Index(value, "o")))
               [] e[2] = "24hrTicker" -> Typed("Ticker", from_value("Ticker", value))
               [] OTHER -> Ok(None)
        ELSE Ok(None)

\* futures Event::decode_data
decode_data(value) ==
    LET e == Index(value, "e")
    IN  IF is_string(e)
        THEN CASE e[2] = "kline" -> Typed("Kline", from_value("KlineEvent", value))
               [] e[2] = "aggTrade" -> Typed("AggTrade", from_value("AggTrade", value))
               [] e[2] = "ORDER_TRADE_UPDATE" ->
                      Typed("OrderTradeUpdate", from_value("OrderTradeUpdateEvent", value))
               [] e[2] = "ACCOUNT_UPDATE" ->
                      Typed("AccountUpdate", from_value("futures::AccountUpdate", value))
               [] e[2] = "forceOrder" ->
                      Typed("LiquidationEvent", from_value("LiquidationEvent", Index(value, "o")))
               [] e[2] = "24hrTicker" -> Typed("Ticker", from_value("Ticker", value))
               [] OTHER -> Ok(None)
        ELSE Ok(None)

\* decode_value handing the whole envelope, not value["data"], to decode_data.
decode_value_no_unwrap(value) ==
    IF is_string(Index(value, "stream")) /\ is_string(Index(Index(value, "data"), "e"))
    THEN decode_data(value)
    ELSE IF is_string(Index(value, "e"))
    THEN decode_data(value)
    ELSE Ok(None)

\* decode_value rejecting what it cannot classify instead of returning Ok(None).
decode_value_strict(value) ==
    LET r == IF is_string(Index(value, "stream"))
                  /\ is_string(Index(Index(value, "data"), "e"))
             THEN decode_data(Index(value, "data"))
             ELSE decode_data(value)
    IN  IF IsOk(r) /\ r[2] = None THEN Err("unknown variant") ELSE r

\* decode_value with its two tests in the other order: an outer "e" wins over
\* the envelope.
decode_value_outer_first(value) ==
    IF is_string(Index(value, "e"))
    THEN decode_data(value)
    ELSE IF is_string(Index(value, "stream")) /\ is_string(Index(Index(value, "data"), "e"))
    THEN decode_data(Index(value, "data"))
    ELSE Ok(None)

\* futures Event::decode_value
decode_value(value) ==
    IF is_string(Index(value, "stream")) /\ is_string(Index(Index(value, "data"), "e"))
    THEN decode_data(Index(value, "data"))
    ELSE IF is_string(Index(value, "e"))
    THEN decode_data(value)
    ELSE Ok(None)

\* serde_json::from_str(&text).and_then(Event::decode_value): the parse
\* error, or what decode_value makes of the parsed document.
and_then_decode_value(parsed) == IF IsOk(parsed) THEN decode_value(parsed[2]) ELSE parsed

\* decode_message with .unwrap() in place of the first unwrap_or_else.
decode_message_unwrap(message) ==
    CASE message[1] = "Text" ->
            LET text == message[2]
                decoded == and_then_decode_value(from_str(text))
            IN  IF IsErr(decoded) THEN Panic("unwrap")
                ELSE IF decoded[2] = None THEN <<"Unknown", text>>
                ELSE decoded[2][2]
      [] message[1] = "Ping" -> <<"Ping", message[2]>>
      [] OTHER -> Panic("unreachable")

\* decode_message building ParseError(err, String::new()): the input text is lost.
decode_message_lose_text(message) ==
    CASE message[1] = "Text" ->
            LET text == message[2]
                decoded == and_then_decode_value(from_str(text))
            IN  IF IsErr(decoded) THEN <<"ParseError", decoded[2], BadText("")>>
                ELSE IF decoded[2] = None THEN <<"Unknown", text>>
                ELSE decoded[2][2]
      [] message[1] = "Ping" -> <<"Ping", message[2]>>
      [] OTHER -> Panic("unreachable")

\* decode_message reading a ping's payload as if it were a text.
decode_message_ping_as_text(message) ==
    CASE message[1] \in {"Text", "Ping"} -> <<"Unknown", message[2]>>
      [] OTHER -> Panic("unreachable")

\* decode_message with .unwrap_or(None) in place of the first unwrap_or_else:
\* a failed deserialization is reported like an unknown event.
decode_message_error_as_unknown(message) ==
    CASE message[1] = "Text" ->
            LET text == message[2]
                decoded == and_then_decode_value(from_str(text))
            IN  IF IsErr(decoded) \/ decoded[2] = None THEN <<"Unknown", text>>
                ELSE decoded[2][2]
      [] message[1] = "Ping" -> <<"Ping", message[2]>>
      [] OTHER -> Panic("unreachable")

\* .unwrap_or_else(|err| Some(Event::ParseError(err, text.clone())))
\* .unwrap_or_else(|| Event::Unknown(text.clone()))
unwrap_or_else(decoded, text) ==
    IF IsErr(decoded) THEN <<"ParseError", decoded[2], text>>
    ELSE IF decoded[2] = None THEN <<"Unknown", text>>
    ELSE decoded[2][2]

\* futures Event::decode_message
decode_message(message) ==
    CASE message[1] = "Text" ->
            unwrap_or_else(and_then_decode_value(from_str(message[2])), message[2])
      [] message[1] = "Ping" -> <<"Ping", message[2]>>
      [] OTHER -> Panic("unreachable")

\* spot Decoder::decode_value
spot_decode_value(value) ==
    LET e == Index(value, "e")
    IN  IF is_string(e) /\ e[2] = "executionReport"
        THEN Typed("ExecutionReport", from_value("ExecutionReport", value))
        ELSE IF is_string(e) /\ e[2] = "outboundAccountPosition"
        THEN Typed("AccountUpdate", from_value("spot::AccountUpdate", value))
        ELSE Ok(None)

\* decode_event keeping the kind of an undecoded frame but not its content.
spot_decode_event_empty(message) ==
    LET parsed == from_str(message[2])
        r == spot_decode_value(parsed[2])
    IN  IF message[1] = "Text" /\ IsOk(parsed) /\ is_string(Index(parsed[2], "e"))
           /\ IsOk(r) /\ r[2] # None
        THEN r[2][2]
        ELSE <<"Message", <<message[1], BadText("")>>>>

\* spot Decoder::decode_event
spot_decode_event(message) ==
    LET parsed == from_str(message[2])
        r == spot_decode_value(parsed[2])
    IN  IF message[1] = "Text" /\ IsOk(parsed) /\ is_string(Index(parsed[2], "e"))
           /\ IsOk(r) /\ r[2] # None
        THEN r[2][2]
        ELSE <<"Message", message>>

(***************************************************************************)
(* The frames the decoders are exercised on: one well-formed object per    *)
(* event kind (after the messages of the exchange and the repository's     *)
(* tests), each with one field dropped or retyped, the discriminator       *)
(* varied, and each wrapped in a combined-stream envelope.                 *)
(***************************************************************************)
GoodKline ==
    JObj([t |-> JNum(16439), T |-> JNum(16439), s |-> JStr("BTCUSDT"), i |-> JStr("1m"), o |-> JStr("0.5"), c |-> JStr("0.5"),
          h |-> JStr("0.5"), l |-> JStr("0.5"), v |-> JStr("568"), n |-> JNum(3), q |-> JStr("0.5"),
          V |-> JStr("0.5"), Q |-> JStr("0.5"), x |-> JBool(FALSE)])

GoodKlineEvent == JObj([e |-> JStr("kline"), E |-> JNum(16439), s |-> JStr("BTCUSDT"), k |-> GoodKline])

GoodAggTrade ==
    JObj([e |-> JStr("aggTrade"), E |-> JFloat(3), s |-> JStr("BTCUSDT"), a |-> JNum(7), p |-> JStr("0.5"),
          q |-> JStr("568"), f |-> JNum(1), l |-> JNum(2), T |-> JNum(16439), m |-> JBool(TRUE)])

GoodOrderTradeUpdate ==
    JObj([s |-> JStr("BTCUSDT"), c |-> JStr("id"), S |-> JStr("SELL"), o |-> JStr("LIMIT"),
          f |-> JStr("GTC"), q |-> JStr("0.5"), p |-> JStr("568"), ap |-> JStr("0"),
          sp |-> JStr("0"), x |-> JStr("NEW"), X |-> JStr("NEW"), i |-> JNum(13),
          l |-> JStr("0"), z |-> JStr("0"), L |-> JStr("0"), T |-> JNum(16439), t |-> JNum(0),
          b |-> JStr("0"), a |-> JStr("568"), m |-> JBool(FALSE), R |-> JBool(FALSE),
          wt |-> JStr("CONTRACT_PRICE"), ot |-> JStr("LIMIT"), ps |-> JStr("SHORT"),
          cp |-> JBool(FALSE), rp |-> JStr("0"), pP |-> JBool(FALSE), si |-> JNum(0)])

GoodOrderTradeUpdateEvent ==
    JObj([e |-> JStr("ORDER_TRADE_UPDATE"), T |-> JNum(16439), E |-> JNum(16439), o |-> GoodOrderTradeUpdate])

GoodAccountUpdate ==
    JObj([e |-> JStr("ACCOUNT_UPDATE"), E |-> JNum(16439), T |-> JNum(16439),
          a |-> JObj([m |-> JStr("ORDER"),
                      B |-> JArr(<<JObj([a |-> JStr("USDT"), wb |-> JStr("0.5"), cw |-> JStr("0.5")])>>),
                      P |-> JArr(<<>>)])])

GoodLiquidation ==
    JObj([s |-> JStr("DOGEBUSD"), S |-> JStr("BUY"), o |-> JStr("LIMIT"), f |-> JStr("IOC"),
          q |-> JStr("568"), p |-> JStr("0.5"), ap |-> JStr("0.5"), X |-> JStr("FILLED"),
          l |-> JStr("568"), z |-> JStr("568"), T |-> JNum(16439)])

GoodForceOrder == JObj([e |-> JStr("forceOrder"), E |-> JNum(16439), o |-> GoodLiquidation])

GoodTicker ==
    JObj([e |-> JStr("24hrTicker"), E |-> JNum(16439), s |-> JStr("BTCUSDT"), p |-> JStr("0.5"), P |-> JStr("0.5"), w |-> JStr("0.5"),
          c |-> JStr("0.5"), Q |-> JStr("0.5"), o |-> JStr("0.5"), h |-> JStr("0.5"), l |-> JStr("0.5"), v |-> JStr("568"),
          q |-> JStr("568"), O |-> JNum(16439), C |-> JNum(16439), F |-> JNum(1), L |-> JNum(2),
          n |-> JNum(3)])

GoodExecutionReport ==
    JObj([e |-> JStr("executionReport"), E |-> JNum(16439), s |-> JStr("BTCUSDT"), c |-> JStr("id"),
          S |-> JStr("BUY"), o |-> JStr("MARKET"), f |-> JStr("GTC"), q |-> JStr("0.5"), p |-> JStr("0.5"),
          P |-> JStr("0.5"), F |-> JStr("0.5"), g |-> JNum(-1), C |-> JStr(""), x |-> JStr("TRADE"),
          X |-> JStr("FILLED"), r |-> JStr("NONE"), i |-> JNum(19), l |-> JStr("0.5"), z |-> JStr("0.5"),
          L |-> JStr("0.5"), n |-> JStr("0.5"), N |-> JStr("BNB"), T |-> JNum(16439), t |-> JNum(13),
          I |-> JNum(40), w |-> JBool(FALSE), m |-> JBool(FALSE), M |-> JBool(TRUE),
          O |-> JNum(16439), Z |-> JStr("0.5"), Y |-> JStr("0.5"), Q |-> JStr("0.5")])

GoodOutboundAccountPosition ==
    JObj([e |-> JStr("outboundAccountPosition"), E |-> JNum(16439), u |-> JNum(16439),
          B |-> JArr(<<JObj([a |-> JStr("BNB"), f |-> JStr("0.5"), l |-> JStr("0")])>>)])

GoodObjects ==
    {GoodKlineEvent, GoodAggTrade, GoodOrderTradeUpdateEvent, GoodAccountUpdate,
     GoodForceOrder, GoodTicker, GoodExecutionReport, GoodOutboundAccountPosition}

\* o with one key other than the discriminator dropped, or retyped to a value
\* of another JSON type.
Damaged(o) ==
    {Drop(o, k) : k \in DOMAIN o[2] \ {"e"}}
        \cup {Put(o, k, v) : k \in DOMAIN o[2] \ {"e"}, v \in {JNull, JStr("abc"), JNum(-1), JBool(TRUE), JArr(<<>>)}}

\* o with the nested object under key k damaged.
DamagedIn(o, k) == {Put(o, k, d) : d \in Damaged(o[2][k])}

\* o with its discriminator replaced or removed.
Retagged(o) ==
    {Drop(o, "e")}
        \cup {Put(o, "e", d) : d \in
                {JStr("kline"), JStr("aggTrade"), JStr("ORDER_TRADE_UPDATE"),
                 JStr("ACCOUNT_UPDATE"), JStr("forceOrder"), JStr("24hrTicker"),
                 JStr("executionReport"), JStr("outboundAccountPosition"),
                 JStr("somethingNew"), JStr(""), JNum(1), JNull, JBool(TRUE)}}

EventObjects ==
    GoodObjects
        \cup UNION {Damaged(o) : o \in GoodObjects}
        \cup DamagedIn(GoodKlineEvent, "k")
        \cup DamagedIn(GoodForceOrder, "o")
        \cup UNION {Retagged(o) : o \in GoodObjects}
        \cup {JObj([x \in {} |-> JNull])}

\* The combined-stream wrapper {"stream": s, "data": d} and its near misses.
Envelope(s, d) == JObj([stream |-> s, data |-> d])
Envelopes(d) ==
    {Envelope(JStr("btcusdt@aggTrade"), d), Envelope(JNum(1), d),
     JObj([data |-> d]),
     Put(Envelope(JStr("btcusdt@aggTrade"), d), "e", JStr("aggTrade")),
     Put(Envelope(JStr("btcusdt@aggTrade"), d), "e", JStr("somethingNew"))}

\* An event object that itself carries the keys of an envelope.
Nested ==
    {Put(Put(o, "stream", JStr("x")), "data", d) :
        o \in {GoodKlineEvent, GoodAggTrade, Put(GoodTicker, "e", JStr("somethingNew"))},
        d \in {GoodAggTrade, GoodForceOrder, Drop(GoodTicker, "E"),
               JObj([e |-> JStr("somethingNew")]), JObj([e |-> JNum(1)]), JNull}}

\* The documents: event objects, documents that are not objects, and each
\* of them inside an envelope.
Documents ==
    LET bare == EventObjects \cup Nested
                    \cup {JNull, JNum(1), JStr("kline"), JBool(TRUE), JArr(<<>>),
                          JArr(<<JStr("kline")>>)}
    IN  bare \cup UNION {Envelopes(d) : d \in bare}

Texts ==
    {JsonText(v, l) : v \in Documents, l \in {"compact", "pretty"}}
        \cup {BadText(""), BadText("ping"), BadText("{\"e\":\"kline\""),
              BadText("<html>502 Bad Gateway</html>")}

Messages ==
    {Text(t) : t \in Texts}
        \cup UNION {{Ping(d), Pong(d), Binary(d)} : d \in {<<>>, <<1>>, <<1, 2>>}}
        \cup {Close}

(***************************************************************************)
(* State.                                                                  *)
(*   dec_msg, fut_event, spot_event, bare_event, spot_bare: a frame handed *)
(*     to the decoders and what each returned (bare_event and spot_bare:   *)
(*     the futures and the spot decoder on the object under "data").       *)
(*   market: which WebSocket type the connection is (futures or spot).     *)
(*   wire: the items the connection's stream will yield next, in order.    *)
(*   ended: the stream has reached its end (yields None once wire is       *)
(*     drained).                                                           *)
(*   pc: where the consumer's next() call stands ("idle": no call in       *)
(*     progress; "reading": inside the loop, awaiting self.ws.next()).     *)
(*   consumed: every item self.ws.next() has yielded so far (history).     *)
(*   returned: every value next() has returned so far (history).           *)
(*   outbound: every frame the client has written to the connection.       *)
(*   auth: the credentials the futures client keeps for itself             *)
(*     (futures::Client.auth, Option<Authentication>).                     *)
(*   client_auth: the credentials of the common client (Client.client.auth *)
(*     of the futures and of the spot client).                             *)
(*   clock: the reading of SystemTime::now(), in milliseconds.             *)
(*   http_pc: where the HTTP call stands ("idle": no call in progress;     *)
(*     "awaiting": a request is sent and send().await has not returned).   *)
(*   http_op: the HTTP operation called last, with the type T it decodes.  *)
(*   http_request: the request in flight, with the locals it was built     *)
(*     from, or Nothing.                                                   *)
(*   http_response: what the transport gave that call: Ok(<<status,        *)
(*     body>>), Err(e), or Nothing when no request was sent.               *)
(*   http_result: what that call returned.                                 *)
(*   tasks: the authenticated calls running at the same time on one        *)
(*     client, each with its position and its locals.                      *)
(*   iv_input, iv_parsed, iv_shown: a string, the Interval parsed from it  *)
(*     and the text that Interval is displayed as.                         *)
(***************************************************************************)
VARIABLES dec_msg, fut_event, spot_event, bare_event, spot_bare,
          market, wire, ended, pc, consumed, returned, outbound,
          auth, client_auth, clock, http_pc, http_op, http_request, http_response,
          http_result,
          tasks,
          iv_input, iv_parsed, iv_shown

vars ==
    <<dec_msg, fut_event, spot_event, bare_event, spot_bare,
      market, wire, ended, pc, consumed, returned, outbound,
      auth, client_auth, clock, http_pc, http_op, http_request, http_response, http_result,
      tasks, iv_input, iv_parsed, iv_shown>>

\* What each part of the model leaves alone.
notDec ==
    <<market, wire, ended, pc, consumed, returned, outbound,
      auth, client_auth, clock, http_pc, http_op, http_request, http_response, http_result,
      tasks, iv_input, iv_parsed, iv_shown>>
notWs ==
    <<dec_msg, fut_event, spot_event, bare_event, spot_bare,
      auth, client_auth, clock, http_pc, http_op, http_request, http_response, http_result,
      tasks, iv_input, iv_parsed, iv_shown>>
notHttp ==
    <<dec_msg, fut_event, spot_event, bare_event, spot_bare,
      market, wire, ended, pc, consumed, returned, outbound,
      tasks, iv_input, iv_parsed, iv_shown>>
notTasks ==
    <<dec_msg, fut_event, spot_event, bare_event, spot_bare,
      market, wire, ended, pc, consumed, returned, outbound,
      http_pc, http_op, http_request, http_response, http_result,
      iv_input, iv_parsed, iv_shown>>
notInterval ==
    <<dec_msg, fut_event, spot_event, bare_event, spot_bare,
      market, wire, ended, pc, consumed, returned, outbound,
      auth, client_auth, clock, http_pc, http_op, http_request, http_response, http_result,
      tasks>>

\* No value yet.
Nothing == <<"nothing">>

\* The parts of the model named in `parts` hold what they hold before
\* anything is constructed or called.
AtRest(parts) ==
    /\ IF "decoders" \in parts
       THEN /\ dec_msg = Nothing
            /\ fut_event = Nothing
            /\ spot_event = Nothing
            /\ bare_event = Nothing
            /\ spot_bare = Nothing
       ELSE TRUE
    /\ IF "stream" \in parts
       THEN /\ market = "futures"
            /\ wire = <<>>
            /\ ended = FALSE
            /\ pc = "idle"
            /\ consumed = <<>>
            /\ returned = <<>>
            /\ outbound = <<>>
       ELSE TRUE
    /\ IF "http" \in parts
       THEN /\ auth = None
            /\ client_auth = None
            /\ clock = 0
            /\ http_pc = "idle"
            /\ http_op = Nothing
            /\ http_request = Nothing
            /\ http_response = Nothing
            /\ http_result = Nothing
       ELSE TRUE
    /\ IF "tasks" \in parts THEN tasks = Nothing ELSE TRUE
    /\ IF "interval" \in parts
       THEN /\ iv_input = Nothing
            /\ iv_parsed = Nothing
            /\ iv_shown = Nothing
       ELSE TRUE

(***************************************************************************)
(* The decoders applied to one frame.                                      *)
(***************************************************************************)
DecInit ==
    /\ dec_msg \in Messages
    /\ fut_event = Nothing
    /\ spot_event = Nothing
    /\ bare_event = Nothing
    /\ spot_bare = Nothing
    /\ AtRest({"stream", "http", "tasks", "interval"})

\* futures: Event::decode_message(dec_msg)
FuturesDecode ==
    /\ fut_event = Nothing
    /\ fut_event' = decode_message(dec_msg)
    /\ UNCHANGED <<dec_msg, spot_event, bare_event, spot_bare, notDec>>

\* spot: Decoder {}.decode_event(dec_msg)
SpotDecode ==
    /\ spot_event = Nothing
    /\ spot_event' = spot_decode_event(dec_msg)
    /\ UNCHANGED <<dec_msg, fut_event, bare_event, spot_bare, notDec>>

\* The object under "data" of a JSON text frame, as a frame of its own.
HasInner(m) ==
    /\ m[1] = "Text"
    /\ m[2][1] = "json"
    /\ Index(m[2][2], "data")[1] = "object"
Inner(m) == Text(JsonText(Index(m[2][2], "data"), m[2][3]))

\* futures: Event::decode_message on the bare inner object of dec_msg
FuturesDecodeInner ==
    /\ bare_event = Nothing
    /\ HasInner(dec_msg)
    /\ bare_event' = decode_message(Inner(dec_msg))
    /\ UNCHANGED <<dec_msg, fut_event, spot_event, spot_bare, notDec>>

\* spot: Decoder {}.decode_event on the bare inner object of dec_msg
SpotDecodeInner ==
    /\ spot_bare = Nothing
    /\ HasInner(dec_msg)
    /\ spot_bare' = spot_decode_event(Inner(dec_msg))
    /\ UNCHANGED <<dec_msg, fut_event, spot_event, bare_event, notDec>>

DecNext == FuturesDecode \/ SpotDecode \/ FuturesDecodeInner \/ SpotDecodeInner

SpecDecode == DecInit /\ [][DecNext]_vars

(***************************************************************************)
(* The receive loop: WebSocket::next() of futures and of spot, over one    *)
(* connection.  The stream yields Some(Ok(message)), Some(Err(e)) or, at   *)
(* its end, None.                                                          *)
(***************************************************************************)
MaxFrames == 3
MaxCalls == 4

StreamMessages ==
    {Text(JsonText(GoodAggTrade, "compact")),
     Text(JsonText(Put(GoodTicker, "e", JStr("somethingNew")), "pretty")),
     Text(BadText("{\"e\":\"kline\"")),
     Ping(<<1, 2>>), Ping(<<>>), Pong(<<1>>), Binary(<<1>>), Close, Frame(<<1>>)}

StreamItems == {Ok(m) : m \in StreamMessages} \cup {Err("Io")}

WsInit ==
    /\ market \in {"futures", "spot"}
    /\ wire = <<>>
    /\ ended = FALSE
    /\ pc = "idle"
    /\ consumed = <<>>
    /\ returned = <<>>
    /\ outbound = <<>>
    /\ AtRest({"decoders", "http", "tasks", "interval"})

\* A loop that has no `_` arm: every message is handed to the decoder.
Forwarded_every_frame(message) == TRUE

\* A match arm that also names Message::Binary(_).
Forwarded_binary_too(message) == message[1] \in {"Ping", "Text", "Binary"}

\* A match arm naming Message::Text(_) alone.
Forwarded_text_only(message) == message[1] = "Text"

\* The match arm `Message::Ping(_) | Message::Text(_)` of next().
Forwarded(message) == message[1] \in {"Ping", "Text"}

\* The event next() builds for a forwarded message.
Decode(mkt, message) ==
    IF mkt = "futures" THEN decode_message(message) ELSE spot_decode_event(message)

\* A loop that answers each ping with a pong of the same payload.
Written_pong(message) == IF message[1] = "Ping" THEN <<Pong(message[2])>> ELSE <<>>

\* The frames next() writes to the connection when it has read `message`.
Written(message) == <<>>

\* The peer sends a frame, or the transport fails.
Arrive(item) ==
    /\ ~ended
    /\ Len(consumed) + Len(wire) < MaxFrames
    /\ wire' = Append(wire, item)
    /\ UNCHANGED <<market, ended, pc, consumed, returned, outbound, notWs>>

\* The stream reaches its end.
EndOfStream ==
    /\ ~ended
    /\ ended' = TRUE
    /\ UNCHANGED <<market, wire, pc, consumed, returned, outbound, notWs>>

\* The consumer calls next().
CallNext ==
    /\ pc = "idle"
    /\ Len(returned) < MaxCalls
    /\ pc' = "reading"
    /\ UNCHANGED <<market, wire, ended, consumed, returned, outbound, notWs>>

\* One turn of the loop with Some(Ok(message)): return the event of a text or
\* ping frame, go round again on any other frame.
PollMessage ==
    /\ pc = "reading"
    /\ wire # <<>>
    /\ IsOk(Head(wire))
    /\ LET message == Head(wire)[2]
       IN  /\ wire' = Tail(wire)
           /\ consumed' = Append(consumed, Head(wire))
           /\ outbound' = outbound \o Written(message)
           /\ IF Forwarded(message)
              THEN /\ returned' = Append(returned, Some(Ok(Decode(market, message))))
                   /\ pc' = "idle"
              ELSE /\ returned' = returned
                   /\ pc' = "reading"
    /\ UNCHANGED <<market, ended, notWs>>

\* One turn of the loop with Some(Err(err)): return the error.
PollError ==
    /\ pc = "reading"
    /\ wire # <<>>
    /\ IsErr(Head(wire))
    /\ wire' = Tail(wire)
    /\ consumed' = Append(consumed, Head(wire))
    /\ returned' = Append(returned, Some(Head(wire)))
    /\ pc' = "idle"
    /\ UNCHANGED <<market, ended, outbound, notWs>>

\* A None arm that goes round the loop again instead of returning.
PollEnd_goes_round ==
    /\ pc = "reading"
    /\ wire = <<>>
    /\ ended
    /\ UNCHANGED vars

\* One turn of the loop with None: return None.
PollEnd ==
    /\ pc = "reading"
    /\ wire = <<>>
    /\ ended
    /\ returned' = Append(returned, None)
    /\ pc' = "idle"
    /\ UNCHANGED <<market, wire, ended, consumed, outbound, notWs>>

Next ==
    \/ \E item \in StreamItems : Arrive(item)
    \/ EndOfStream
    \/ CallNext
    \/ PollMessage
    \/ PollError
    \/ PollEnd

Spec == WsInit /\ [][Next]_vars

\* The receive loop under the scheduling of an awaited call: once next() is
\* being awaited, a turn of its loop that can be taken is taken.  Nothing
\* obliges the peer to send, the stream to end or the consumer to call.
SpecLive ==
    /\ WsInit
    /\ [][Next]_vars
    /\ WF_vars(PollMessage)
    /\ WF_vars(PollError)
    /\ WF_vars(PollEnd)

(***************************************************************************)
(* The HTTP clients: the response decoder and the operations that use it   *)
(* or bypass it.                                                           *)
(***************************************************************************)
\* A Rust String holding a whole response text (body.to_string()).
StringOfText(text) == <<"String of text", text>>

\* serde_json::from_str::<T>(body); T is a struct name or "Value".
from_str_as(T, body) ==
    LET parsed == from_str(body)
    IN  IF IsErr(parsed) THEN parsed
        ELSE IF T = "Value" THEN parsed
        ELSE from_value(T, parsed[2])

\* ApiError { code, msg, other }
ApiError(code, msg, other) == <<"struct", "ApiError", [code |-> code, msg |-> msg], other>>

\* decode_response taking every status for a failure unless the body decodes:
\* it never reads the error body.
decode_response_never_reads_error(T, status, body) ==
    IF status = 200
    THEN LET r == from_str_as(T, body)
         IN  IF IsOk(r) THEN r ELSE Err(<<"Decode", r[2], body>>)
    ELSE Err(<<"ApiError", ApiError(<<"i64", status>>, StringOfText(body), [k \in {} |-> JNull])>>)

\* decode_response using `?` on the error body: a body that is no ApiError
\* comes back as Error::Serde.
decode_response_serde(T, status, body) ==
    IF status = 200
    THEN LET r == from_str_as(T, body)
         IN  IF IsOk(r) THEN r ELSE Err(<<"Decode", r[2], body>>)
    ELSE LET e == from_str_as("ApiError", body)
         IN  IF IsOk(e) THEN Err(<<"ApiError", e[2]>>) ELSE Err(<<"Serde", e[2]>>)

\* futures::Client::decode_response::<T>(status, body)
decode_response(T, status, body) ==
    IF status = 200
    THEN LET r == from_str_as(T, body)
         IN  IF IsOk(r) THEN r ELSE Err(<<"Decode", r[2], body>>)
    ELSE LET e == from_str_as("ApiError", body)
         IN  IF IsOk(e)
             THEN Err(<<"ApiError", e[2]>>)
             ELSE Err(<<"ApiError", ApiError(<<"i64", status>>, StringOfText(body), [k \in {} |-> JNull])>>)

\* spot::Client::decode_response::<T>(status, body)
spot_decode_response(T, status, body) ==
    IF status = 200
    THEN LET r == from_str_as(T, body)
         IN  IF IsOk(r) THEN r ELSE Err(<<"Decode", r[2], body>>)
    ELSE LET e == from_str_as("ApiError", body)
         IN  IF IsOk(e)
             THEN Err(<<"ApiError", e[2]>>)
             ELSE Err(<<"ApiError", ApiError(<<"i64", status>>, StringOfText(body), [k \in {} |-> JNull])>>)

\* The tail of post_listenkey and put_listenkey: Ok(serde_json::from_str(&body)?)
listenkey_result(body) ==
    LET r == from_str_as("ListenKeyResponse", body)
    IN  IF IsOk(r) THEN r ELSE Err(<<"Serde", r[2]>>)

\* Response bodies: API errors and their near misses, bodies of the typed
\* shapes, and texts that are not JSON.
ErrorBody == JObj([code |-> JNum(-2011), msg |-> JStr("Unknown order sent.")])

GoodCancelOrderResponse ==
    JObj([orderId |-> JNum(13), symbol |-> JStr("BTCUSDT"), status |-> JStr("CANCELED"),
          clientOrderId |-> JStr("id"), price |-> JStr("568"), avgPrice |-> JStr("0"),
          origQty |-> JStr("0.5")])

GoodFuturesOrderResponse ==
    JObj([orderId |-> JNum(13), symbol |-> JStr("BTCUSDT"), status |-> JStr("NEW"),
          clientOrderId |-> JStr("id"), price |-> JStr("568"), avgPrice |-> JStr("0"),
          origQty |-> JStr("0.5"), executedQty |-> JStr("0"), cumQty |-> JStr("0"),
          cumQuote |-> JStr("0"), timeInForce |-> JStr("GTC"), type |-> JStr("LIMIT"),
          reduceOnly |-> JBool(FALSE), closePosition |-> JBool(FALSE),
          side |-> JStr("BUY"), positionSide |-> JStr("LONG"), stopPrice |-> JStr("0"),
          workingType |-> JStr("CONTRACT_PRICE"), priceProtect |-> JBool(FALSE),
          origType |-> JStr("LIMIT"), updateTime |-> JNum(16439)])

GoodSpotOrderResponse ==
    JObj([symbol |-> JStr("BTCUSDT"), orderId |-> JNum(13), orderListId |-> JNum(-1),
          clientOrderId |-> JStr("id"), transactTime |-> JNum(16439), price |-> JStr("568"),
          origQty |-> JStr("0.5"), executedQty |-> JStr("0"), cummulativeQuoteQty |-> JStr("0"),
          status |-> JStr("NEW"), timeInForce |-> JStr("GTC"), type |-> JStr("LIMIT"),
          side |-> JStr("BUY"), fills |-> JArr(<<>>)])

GoodBookTicker ==
    JObj([symbol |-> JStr("BTCUSDT"), bidPrice |-> JStr("568"), bidQty |-> JStr("0.5"), askPrice |-> JStr("568"),
          askQty |-> JStr("0.5"), time |-> JNum(16439)])

Bodies ==
    {JsonText(v, "compact") : v \in
        {ErrorBody,
             Put(ErrorBody, "data", JObj([orderId |-> JNum(13)])),
             Put(ErrorBody, "code", JNum(418)),
             Put(ErrorBody, "code", JStr("-2011")),
             Put(ErrorBody, "code", JFloat(3)),
             Put(ErrorBody, "msg", JNull),
             Drop(ErrorBody, "code"),
             Drop(ErrorBody, "msg"),
             JObj([k \in {} |-> JNull]), JArr(<<>>), JNull, JStr("error"),
             JObj([listenKey |-> JStr("pqia91ma19a5s61cv6a81va65sdf19v8a65a1")]),
             Put(ErrorBody, "listenKey", JStr("k")),
             JObj([dualSidePosition |-> JBool(TRUE)]),
             GoodCancelOrderResponse, Drop(GoodCancelOrderResponse, "price"),
             GoodFuturesOrderResponse, GoodSpotOrderResponse, GoodBookTicker,
             Drop(GoodBookTicker, "time")}}
        \cup {BadText(""), BadText("<html>502 Bad Gateway</html>")}

Statuses == {200, 201, 204, 400, 401, 429, 502}

\* What the transport gives a request: a response, or a failure to send.
Responses == {Ok(<<st, b>>) : st \in Statuses, b \in Bodies} \cup {Err("connect")}

\* The types the generic operations are instantiated with.
GenericTypes == {"PositionModeResponse", "Value"}

(***************************************************************************)
(* Building a request.  A string is a sequence of pieces; the characters   *)
(* an encoder rewrites are pieces of their own.                            *)
(***************************************************************************)
RECURSIVE Flat(_)
\* The string the pieces spell.
Flat(s) == IF s = <<>> THEN "" ELSE Head(s) \o Flat(Tail(s))

\* form_urlencoded::byte_serialize, used by serde_urlencoded::to_string:
\* letters, digits and *-._ stay, a space becomes +, the rest is %XX.
byte_serialize(s) ==
    [i \in 1..Len(s) |-> CASE s[i] = " " -> "+"
                           [] s[i] = "#" -> "%23"
                           [] s[i] = "&" -> "%26"
                           [] s[i] = "=" -> "%3D"
                           [] s[i] = "+" -> "%2B"
                           [] OTHER -> s[i]]

\* The url crate's query encoding (Url::set_query, Url::parse): a space, ",
\* #, <, > and ' are percent-encoded, everything else is copied.
set_query(s) ==
    [i \in 1..Len(s) |-> CASE s[i] = " " -> "%20"
                           [] s[i] = "#" -> "%23"
                           [] OTHER -> s[i]]

RECURSIVE BeforeFragment(_)
\* The part of a URL's text after "?" that Url::parse takes for the query:
\* it ends at the first "#", where the fragment starts.
BeforeFragment(s) ==
    IF s = <<>> \/ Head(s) = "#" THEN <<>> ELSE <<Head(s)>> \o BeforeFragment(Tail(s))
\* Url::parse of "<root><endpoint>?<s>", as reqwest does for a String URL.
parse_query(s) == set_query(BeforeFragment(s))

\* serde_urlencoded::to_string of a list of (key, value) pairs.
RECURSIVE urlencoded(_)
urlencoded(pairs) ==
    IF pairs = <<>> THEN <<>>
    ELSE byte_serialize(Head(pairs)[1]) \o <<"=">> \o byte_serialize(Head(pairs)[2])
         \o (IF Tail(pairs) = <<>> THEN <<>> ELSE <<"&">> \o urlencoded(Tail(pairs)))

\* hex(HMAC-SHA256(secret, s)): one piece, fixed by the key and the bytes of s.
hmac(secret, s) == "hmac(" \o secret \o "," \o Flat(s) \o ")"

\* compute_signature: self.auth.as_ref().unwrap() panics without credentials.
compute_signature(a, s) ==
    IF a = None THEN Panic("unwrap on None") ELSE Ok(hmac(a[2].api_secret, s))

\* The text sign_form signs: the form, the window and the clock's reading.
to_sign(form, now) == form \o <<"&recvWindow=1000&timestamp=", ToString(now)>>
with_signature(s, sig) == IF IsOk(sig) THEN Ok(s \o <<"&signature=", sig[2]>>) ELSE sig

\* sign_form putting the signature first, over the caller's form alone.
sign_form_signature_first(a, form, now) ==
    with_signature(<<"recvWindow=1000&timestamp=", ToString(now), "&">> \o form,
                   compute_signature(a, form))

\* common::Client::sign_form
sign_form(a, form, now) ==
    with_signature(to_sign(form, now), compute_signature(a, to_sign(form, now)))

\* futures::Client::compute_signature, on the futures client's own `auth`.
futures_compute_signature(a, request_body) ==
    IF a = None THEN Panic("unwrap on None") ELSE Ok(hmac(a[2].api_secret, request_body))

\* futures::Client::sign_form leaving the receive window out.
futures_sign_form_no_window(a, form, timestamp) ==
    IF IsOk(futures_compute_signature(a, form \o <<"&timestamp=", ToString(timestamp)>>))
    THEN Ok(form \o <<"&timestamp=", ToString(timestamp), "&signature=",
                      futures_compute_signature(a, form \o <<"&timestamp=", ToString(timestamp)>>)[2]>>)
    ELSE futures_compute_signature(a, form \o <<"&timestamp=", ToString(timestamp)>>)

\* futures::Client::sign_form: its own reading of the clock, its own two
\* format! calls, its own compute_signature.
futures_sign_form(a, form, timestamp) ==
    IF IsOk(futures_compute_signature(a, form \o <<"&recvWindow=1000&timestamp=", ToString(timestamp)>>))
    THEN Ok(form \o <<"&recvWindow=1000&timestamp=", ToString(timestamp), "&signature=",
                      futures_compute_signature(
                          a, form \o <<"&recvWindow=1000&timestamp=", ToString(timestamp)>>)[2]>>)
    ELSE futures_compute_signature(a, form \o <<"&recvWindow=1000&timestamp=", ToString(timestamp)>>)

\* futures::Client::headers, on the futures client's own `auth`.
futures_headers(a) ==
    IF a = None
    THEN {<<"Content-Type", "application/x-www-form-urlencoded">>}
    ELSE {<<"X-MBX-APIKEY", a[2].api_key>>, <<"Content-Type", "application/x-www-form-urlencoded">>}

\* The form put_listenkey builds and signs itself.
listenkey_form(a, now) ==
    with_signature(<<"timestamp=", ToString(now)>>,
                   compute_signature(a, <<"timestamp=", ToString(now)>>))

\* headers() returning an empty map.
headers_none(a) == {}

\* Client::headers
headers(a) ==
    (IF a = None THEN {} ELSE {<<"X-MBX-APIKEY", a[2].api_key>>})
        \cup {<<"Content-Type", "application/x-www-form-urlencoded">>}

\* What the callers pass for a symbol or a client order id.
Symbols == {<<"BTCUSDT">>, <<"BTC", " ", "USDT">>, <<"a", "#", "1">>, <<"a", "&", "b=", "+">>}

\* The pairs a Serialize argument (CancelOrder, NewOrder, OrderRequest, a
\* query) gives serde_urlencoded.
PairLists == {<<>>} \cup {<< << <<"symbol">>, v>> >> : v \in Symbols}
                    \cup {<< << <<"symbol">>, <<"BTCUSDT">> >>, << <<"newClientOrderId">>, v>> >> : v \in Symbols}

\* The raw form or query string a caller passes as &str.
RawForms == {<<>>} \cup {<<"symbol=">> \o v : v \in Symbols}

Credentials == Some([api_key |-> "key", api_secret |-> "secret"])

\* The request handed to the transport, with the locals it was built from:
\* `arg` the caller's argument, `at` the clock's reading, `form` what
\* sign_form (or put_listenkey's own signing) returned.
Request(method, arg, at, form, query, body, hdrs) ==
    [method |-> method, arg |-> arg, at |-> at, form |-> form,
     query |-> query, body |-> body, headers |-> hdrs]

MaxClock == 2

HttpInit ==
    /\ auth \in {None, Credentials}
    /\ client_auth = auth
    /\ clock = 0
    /\ http_pc = "idle"
    /\ http_op = Nothing
    /\ http_request = Nothing
    /\ http_response = Nothing
    /\ http_result = Nothing
    /\ AtRest({"decoders", "stream", "tasks", "interval"})

\* SystemTime::now() moves on.
Tick ==
    /\ clock < MaxClock
    /\ clock' = clock + 1
    /\ UNCHANGED <<auth, client_auth, http_pc, http_op, http_request, http_response,
                   http_result, notHttp>>

\* An operation up to send().await: `signed` is what its signing step
\* returned (a panic ends the call there, before anything is sent; Ok(<<>>)
\* for an operation that signs nothing), `req` is the request it hands to
\* the transport.
Send(op, T, signed, req) ==
    /\ http_pc = "idle"
    /\ http_op' = <<op, T>>
    /\ http_response' = Nothing
    /\ IF IsOk(signed)
       THEN /\ http_request' = req
            /\ http_result' = Nothing
            /\ http_pc' = "awaiting"
       ELSE /\ http_request' = Nothing
            /\ http_result' = signed
            /\ http_pc' = "idle"
    /\ UNCHANGED <<auth, client_auth, clock, notHttp>>

\* The signed form inside Ok(form); a call whose signing step failed builds
\* no request.
FormOf(signed) == IF IsOk(signed) THEN signed[2] ELSE <<>>

\* futures::Client::get: no headers; the query goes through .query().
FuturesGet ==
    \E T \in GenericTypes, q \in PairLists :
        Send("futures::get", T, Ok(<<>>),
             Request("GET", q, clock, None, Some(urlencoded(q)), None, {}))

\* futures::Client::authenticated_get: signed and given headers by the
\* futures client's own sign_form and headers (self.sign_form, self.headers,
\* on its own `auth`; every other operation goes to self.client, the inner
\* common::Client); the signed form is pasted after "?" and the whole text
\* is parsed as a URL.
FuturesAuthenticatedGet ==
    \E T \in GenericTypes, q \in PairLists :
        Send("futures::authenticated_get", T, futures_sign_form(auth, urlencoded(q), clock),
             Request("GET", q, clock, futures_sign_form(auth, urlencoded(q), clock),
                     Some(parse_query(FormOf(futures_sign_form(auth, urlencoded(q), clock)))),
                     None, futures_headers(auth)))

\* The DELETE of cancel_order and cancel_all_open_orders: url2 sets the
\* signed form as the query.
SendDelete(op, T, q, signed) ==
    Send(op, T, signed,
         Request("DELETE", q, clock, signed, Some(set_query(FormOf(signed))), None, headers(client_auth)))

\* futures::Client::cancel_order
FuturesCancelOrder ==
    \E q \in PairLists \ {<<>>} :
        SendDelete("futures::cancel_order", "CancelOrderResponse", q,
                   sign_form(client_auth, urlencoded(q), clock))

\* futures::Client::cancel_all_open_orders
FuturesCancelAllOpenOrders ==
    \E v \in Symbols :
        SendDelete("futures::cancel_all_open_orders", "Value", << << <<"symbol">>, v>> >>,
                   sign_form(client_auth, urlencoded(<< << <<"symbol">>, v>> >>), clock))

\* The POST of post_new_order and post_order: the signed form is the body.
SendPost(op, T, q, signed) ==
    Send(op, T, signed,
         Request("POST", q, clock, signed, None, Some(FormOf(signed)), headers(client_auth)))

\* futures::Client::post_new_order
FuturesPostNewOrder ==
    \E q \in PairLists :
        SendPost("futures::post_new_order", "futures::OrderResponse", q,
                 sign_form(client_auth, urlencoded(q), clock))

\* futures::Client::book_ticker: no headers; url2 sets "symbol=<symbol>".
FuturesBookTicker ==
    \E v \in Symbols :
        Send("futures::book_ticker", "BookTickerResponse", Ok(<<>>),
             Request("GET", v, clock, None, Some(set_query(<<"symbol=">> \o v)), None, {}))

\* spot::Client::get: no headers; url2 sets the caller's query string.
SpotGet ==
    \E T \in GenericTypes, q \in {None} \cup {Some(f) : f \in RawForms} :
        Send("spot::get", T, Ok(<<>>),
             Request("GET", q, clock, None,
                     IF q = None THEN None ELSE Some(set_query(q[2])), None, {}))

\* spot::Client::authenticated_get: the caller's form is signed as it is and
\* get3 sets the signed form as the query.
SendSpotAuthenticatedGet(T, f, signed) ==
    Send("spot::authenticated_get", T, signed,
         Request("GET", f, clock, signed, Some(set_query(FormOf(signed))), None, headers(client_auth)))

SpotAuthenticatedGet ==
    \E T \in GenericTypes, f \in RawForms :
        SendSpotAuthenticatedGet(T, f, sign_form(client_auth, f, clock))

\* spot::Client::post_order
SpotPostOrder ==
    \E q \in PairLists \ {<<>>} :
        SendPost("spot::post_order", "spot::OrderResponse", q,
                 sign_form(client_auth, urlencoded(q), clock))

\* common::Client::post_listenkey (through futures or spot post_listenkey):
\* a POST with the headers and nothing else.
PostListenKey ==
    Send("post_listenkey", "ListenKeyResponse", Ok(<<>>),
         Request("POST", <<>>, clock, None, None, None, headers(client_auth)))

\* common::Client::put_listenkey (through futures or spot put_listenkey)
PutListenKey ==
    SendPost("put_listenkey", "ListenKeyResponse", <<>>, listenkey_form(client_auth, clock))

\* What the operation makes of the response: the listen-key operations read
\* the body alone, the others call their client's decode_response.
Outcome(op, T, status, body) ==
    CASE op \in {"post_listenkey", "put_listenkey"} -> listenkey_result(body)
      [] op \in {"spot::get", "spot::authenticated_get", "spot::post_order"} ->
             spot_decode_response(T, status, body)
      [] OTHER -> decode_response(T, status, body)

\* A send().await whose failure is answered by sending the request again.
Receive_sends_again ==
    /\ http_pc = "awaiting"
    /\ \E resp \in Responses :
           /\ http_response' = resp
           /\ IF IsErr(resp)
              THEN /\ http_result' = Nothing
                   /\ http_request' = http_request
                   /\ http_pc' = "awaiting"
              ELSE /\ http_result' = Outcome(http_op[1], http_op[2], resp[2][1], resp[2][2])
                   /\ http_request' = Nothing
                   /\ http_pc' = "idle"
    /\ UNCHANGED <<auth, client_auth, clock, http_op, notHttp>>

\* send().await and response.text().await return, and the operation ends.
Receive ==
    /\ http_pc = "awaiting"
    /\ \E resp \in Responses :
           /\ http_response' = resp
           /\ http_result' = IF IsErr(resp) THEN Err(<<"Request", resp[2]>>)
                             ELSE Outcome(http_op[1], http_op[2], resp[2][1], resp[2][2])
    /\ http_request' = Nothing
    /\ http_pc' = "idle"
    /\ UNCHANGED <<auth, client_auth, clock, http_op, notHttp>>

HttpNext ==
    \/ Tick
    \/ FuturesGet
    \/ FuturesAuthenticatedGet
    \/ FuturesCancelOrder
    \/ FuturesCancelAllOpenOrders
    \/ FuturesPostNewOrder
    \/ FuturesBookTicker
    \/ SpotGet
    \/ SpotAuthenticatedGet
    \/ SpotPostOrder
    \/ PostListenKey
    \/ PutListenKey
    \/ Receive

SpecHttp == HttpInit /\ [][HttpNext]_vars

(***************************************************************************)
(* Authenticated requests issued concurrently through one client: each     *)
(* task is one caller of sign_form and of the send that follows it, with   *)
(* the locals of its call; the client's credentials and the clock are what *)
(* the tasks share.                                                        *)
(***************************************************************************)
NumTasks == 2

IdleTask ==
    [pc |-> "idle", op |-> "", arg |-> <<>>, begun |-> 0, timestamp |-> 0, signed |-> Nothing]

ConcInit ==
    /\ auth \in {None, Credentials}
    /\ client_auth = auth
    /\ clock = 0
    /\ tasks = [t \in 1..NumTasks |-> IdleTask]
    /\ http_pc = "idle"
    /\ http_op = Nothing
    /\ http_request = Nothing
    /\ http_response = Nothing
    /\ http_result = Nothing
    /\ AtRest({"decoders", "stream", "interval"})

\* A task enters an authenticated operation with its own argument.
Call(t, op, q) ==
    /\ tasks[t].pc = "idle"
    /\ tasks' = [tasks EXCEPT ![t] = [@ EXCEPT !.pc = "called", !.op = op, !.arg = urlencoded(q),
                                                !.begun = clock, !.timestamp = 0,
                                                !.signed = Nothing]]
    /\ UNCHANGED <<auth, client_auth, clock, notTasks>>

\* sign_form reading a timestamp some other call has read and not yet sent.
ReadTimestamp_of_another_call(t) ==
    /\ tasks[t].pc = "called"
    /\ tasks' = [tasks EXCEPT ![t] = [@ EXCEPT
           !.pc = "stamped",
           !.timestamp =
               IF \E u \in 1..NumTasks : u # t /\ tasks[u].pc \in {"stamped", "signed"}
               THEN tasks[CHOOSE u \in 1..NumTasks :
                              u # t /\ tasks[u].pc \in {"stamped", "signed"}].timestamp
               ELSE clock]]
    /\ UNCHANGED <<auth, client_auth, clock, notTasks>>

\* sign_form: let timestamp = SystemTime::now() (get_timestamp), a local.
ReadTimestamp(t) ==
    /\ tasks[t].pc = "called"
    /\ tasks' = [tasks EXCEPT ![t] = [@ EXCEPT !.pc = "stamped", !.timestamp = clock]]
    /\ UNCHANGED <<auth, client_auth, clock, notTasks>>

\* The rest of sign_form reading the clock again for the text it signs.
Sign_reads_clock_again(t) ==
    /\ tasks[t].pc = "stamped"
    /\ tasks' = [tasks EXCEPT ![t] = [@ EXCEPT !.pc = "signed",
                                                !.signed = sign_form(client_auth, tasks[t].arg, clock)]]
    /\ UNCHANGED <<auth, client_auth, clock, notTasks>>

\* The rest of sign_form: the two format! calls and compute_signature, on
\* the call's locals and the client's credentials; authenticated_get runs
\* the futures client's own sign_form, the other operations the inner
\* client's.
Sign(t) ==
    /\ tasks[t].pc = "stamped"
    /\ tasks' = [tasks EXCEPT ![t] = [@ EXCEPT
           !.pc = "signed",
           !.signed = IF tasks[t].op = "futures::authenticated_get"
                      THEN futures_sign_form(auth, tasks[t].arg, tasks[t].timestamp)
                      ELSE sign_form(client_auth, tasks[t].arg, tasks[t].timestamp)]]
    /\ UNCHANGED <<auth, client_auth, clock, notTasks>>

\* The request is sent with the signed form (or the call ended where
\* signing panicked), and the call is over: its locals are gone.
Transmit(t) ==
    /\ tasks[t].pc = "signed"
    /\ tasks' = [tasks EXCEPT ![t] = IdleTask]
    /\ UNCHANGED <<auth, client_auth, clock, notTasks>>

ConcNext ==
    \/ Tick
    \/ \E t \in 1..NumTasks, q \in {<<>>, << <<<<"symbol">>, <<"BTCUSDT">>>> >>},
          op \in {"futures::authenticated_get", "futures::post_new_order"} : Call(t, op, q)
    \/ \E t \in 1..NumTasks : ReadTimestamp(t)
    \/ \E t \in 1..NumTasks : Sign(t)
    \/ \E t \in 1..NumTasks : Transmit(t)

SpecConcurrent == ConcInit /\ [][ConcNext]_vars

(***************************************************************************)
(* Interval: a string parsed by from_str_non_strict and the Interval       *)
(* displayed.  A string is the sequence of its characters; an Interval is  *)
(* <<variant>> or <<"Other", string>>.                                     *)
(***************************************************************************)
MaxIntervalLen == 3

\* Every string of up to MaxIntervalLen characters over the characters of the
\* six known strings, an upper-case letter, a point and a space.
IntervalStrings ==
    UNION {[1..n -> {"1", "3", "4", "5", "m", "h", "M", ".", " "}] : n \in 0..MaxIntervalLen}

\* Interval::from_str_non_strict
from_str_non_strict(s) ==
    CASE s = <<"1", "m">> -> <<"OneMinute">>
      [] s = <<"3", "m">> -> <<"ThreeMinute">>
      [] s = <<"5", "m">> -> <<"FiveMinute">>
      [] s = <<"1", "5", "m">> -> <<"FifteenMinute">>
      [] s = <<"1", "h">> -> <<"OneHour">>
      [] s = <<"4", "h">> -> <<"FourHour">>
      [] OTHER -> <<"Other", s>>

\* A Display that writes the hours the wrong way round.
fmt_hours_swapped(interval) ==
    CASE interval = <<"OneMinute">> -> <<"1", "m">>
      [] interval = <<"ThreeMinute">> -> <<"3", "m">>
      [] interval = <<"FiveMinute">> -> <<"5", "m">>
      [] interval = <<"FifteenMinute">> -> <<"1", "5", "m">>
      [] interval = <<"OneHour">> -> <<"4", "h">>
      [] interval = <<"FourHour">> -> <<"1", "h">>
      [] OTHER -> interval[2]

\* impl Display for Interval: fmt
fmt(interval) ==
    CASE interval = <<"OneMinute">> -> <<"1", "m">>
      [] interval = <<"ThreeMinute">> -> <<"3", "m">>
      [] interval = <<"FiveMinute">> -> <<"5", "m">>
      [] interval = <<"FifteenMinute">> -> <<"1", "5", "m">>
      [] interval = <<"OneHour">> -> <<"1", "h">>
      [] interval = <<"FourHour">> -> <<"4", "h">>
      [] OTHER -> interval[2]

IntervalInit ==
    /\ iv_input \in IntervalStrings
    /\ iv_parsed = Nothing
    /\ iv_shown = Nothing
    /\ AtRest({"decoders", "stream", "http", "tasks"})

\* Interval::from_str_non_strict(s)
Parse ==
    /\ iv_parsed = Nothing
    /\ iv_parsed' = from_str_non_strict(iv_input)
    /\ UNCHANGED <<iv_input, iv_shown, notInterval>>

\* format!("{}", interval)
Format ==
    /\ iv_parsed # Nothing
    /\ iv_shown = Nothing
    /\ iv_shown' = fmt(iv_parsed)
    /\ UNCHANGED <<iv_input, iv_parsed, notInterval>>

IntervalNext == Parse \/ Format

SpecInterval == IntervalInit /\ [][IntervalNext]_vars

(***************************************************************************)
(* Both transports: a run drives the receive loop of a stream or the       *)
(* operations of a client.                                                 *)
(***************************************************************************)
TransportInit == WsInit \/ HttpInit

TransportNext ==
    \/ AtRest({"http"}) /\ Next
    \/ AtRest({"stream"}) /\ HttpNext

SpecTransport == TransportInit /\ [][TransportNext]_vars

(***************************************************************************)
(* Properties of the decoders and of the receive loop.                     *)
(***************************************************************************)
\* The text and ping frames read so far, and the events returned so far.
Frames == SelectSeq(consumed, LAMBDA it : IsOk(it) /\ it[2][1] \in {"Text", "Ping"})
Events == SelectSeq(returned, LAMBDA r : r[1] = "Some" /\ r[2][1] = "Ok")
Last(q) == q[Len(q)]

\* C1: for every inbound text frame, whatever its content, the futures
\* decoder and the spot decoder each return one Event of their enum: never a
\* panic, never an error.
C1_TextFrameGivesOneEvent ==
    dec_msg[1] = "Text" =>
        /\ fut_event # Nothing => fut_event[1] \in FuturesVariants
        /\ spot_event # Nothing => spot_event[1] \in SpotVariants

\* C1 witness: a text frame that is not JSON, decoded by both decoders.
C1_Witness ==
    /\ dec_msg[1] = "Text"
    /\ dec_msg[2][1] = "invalid"
    /\ fut_event # Nothing
    /\ spot_event # Nothing

\* C2: the events next() has returned are, one for one and in order, the
\* events of the text and ping frames read from the connection, and a call
\* that has returned an event or an error read nothing after the item it
\* returned for.
C2_EventsFollowWireOrder ==
    /\ Len(Events) = Len(Frames)
    /\ \A i \in 1..Len(Frames) : Events[i] = Some(Ok(Decode(market, Frames[i][2])))
    /\ (pc = "idle" /\ returned # <<>> /\ Last(returned) # None) =>
           /\ consumed # <<>>
           /\ IsErr(Last(returned)[2]) => Last(consumed) = Last(returned)[2]
           /\ IsOk(Last(returned)[2]) =>
                  IsOk(Last(consumed)) /\ Last(consumed)[2][1] \in {"Text", "Ping"}

\* C2 witness: a text frame, a skipped binary frame and a ping frame read in
\* that order, with both events returned.
C2_Witness ==
    /\ Len(consumed) = 3
    /\ consumed[1] = Ok(Text(JsonText(GoodAggTrade, "compact")))
    /\ consumed[2] = Ok(Binary(<<1>>))
    /\ consumed[3] = Ok(Ping(<<1, 2>>))
    /\ Len(Events) = 2
    /\ pc = "idle"

\* The pong frames written so far, and the ones the pings read so far call for.
PongsWritten == SelectSeq(outbound, LAMBDA f : f[1] = "Pong")
PingsRead == SelectSeq(consumed, LAMBDA it : IsOk(it) /\ it[2][1] = "Ping")

C4_ParseErrorKeepsTextAndStream ==
    market = "futures" =>
        \A i \in 1..Len(Frames) :
            (Frames[i][2][1] = "Text" /\ Frames[i][2][2][1] = "invalid") =>
                /\ Len(Events) >= i
                /\ Events[i][2][2][1] = "ParseError"
                /\ Events[i][2][2][3] = Frames[i][2][2]
                /\ \A j \in (i + 1)..Len(Frames) :
                       /\ Len(Events) >= j
                       /\ Events[j] = Some(Ok(decode_message(Frames[j][2])))

\* C4 witness: the futures loop returned a ParseError and then a later event.
C4_Witness ==
    /\ market = "futures"
    /\ Len(Events) >= 2
    /\ Events[1][2][2][1] = "ParseError"
    /\ Events[2][2][2][1] = "AggTrade"

\* The discriminators the futures decoder knows.
FuturesKinds ==
    {"kline", "aggTrade", "ORDER_TRADE_UPDATE", "ACCOUNT_UPDATE", "forceOrder", "24hrTicker"}

\* v has the combined-stream shape: a string "stream" and a string data.e.
EnvelopeShaped(v) ==
    /\ v[1] = "object"
    /\ "stream" \in DOMAIN v[2]
    /\ v[2]["stream"][1] = "string"
    /\ "data" \in DOMAIN v[2]
    /\ v[2]["data"][1] = "object"
    /\ "e" \in DOMAIN v[2]["data"][2]
    /\ v[2]["data"][2]["e"][1] = "string"

\* v names no known event kind: it has no "e", or an "e" that is no string,
\* or an "e" outside the known discriminators.
NoKnownKind(v) ==
    \/ v[1] # "object"
    \/ "e" \notin DOMAIN v[2]
    \/ v[2]["e"][1] # "string"
    \/ v[2]["e"][2] \notin FuturesKinds

\* C5: a JSON text frame that names no known event kind and is no envelope is
\* decoded by the futures decoder to Unknown carrying the frame's own text.
C5_UnknownKeepsText ==
    (/\ dec_msg[1] = "Text"
     /\ dec_msg[2][1] = "json"
     /\ NoKnownKind(dec_msg[2][2])
     /\ ~EnvelopeShaped(dec_msg[2][2])
     /\ fut_event # Nothing)
        => fut_event = <<"Unknown", dec_msg[2]>>

\* C5 witness: {"e": "somethingNew", ...} has been decoded.
C5_Witness ==
    /\ dec_msg = Text(JsonText(Put(GoodTicker, "e", JStr("somethingNew")), "pretty"))
    /\ fut_event # Nothing

\* The same event, or the same class of failure (ParseError and Unknown carry
\* the text of the frame, which differs between an envelope and its data).
SameOutcome(a, b) == IF a[1] \in {"ParseError", "Unknown"} THEN b[1] = a[1] ELSE a = b

\* dec_msg is exactly {"stream": S, "data": D} with S a string and D an object
\* with a string "e".
IsEnvelopeFrame ==
    /\ dec_msg[1] = "Text"
    /\ dec_msg[2][1] = "json"
    /\ EnvelopeShaped(dec_msg[2][2])
    /\ DOMAIN dec_msg[2][2][2] = {"stream", "data"}

\* C6 as stated: decoding {"stream": S, "data": D} gives the outcome of
\* decoding the bare D, for every object D with a string discriminator.
C6_EnvelopeEqualsBare ==
    (IsEnvelopeFrame /\ fut_event # Nothing /\ bare_event # Nothing)
        => SameOutcome(fut_event, bare_event)

\* C6 amended: the same, for every such D that is not itself envelope-shaped
\* (D has no string "stream" together with a string data.e).
C6_EnvelopeEqualsBareUnlessNested ==
    (/\ IsEnvelopeFrame
     /\ ~EnvelopeShaped(dec_msg[2][2][2]["data"])
     /\ fut_event # Nothing
     /\ bare_event # Nothing)
        => SameOutcome(fut_event, bare_event)

\* C6 witness: the liquidation envelope of the repository's test and its bare
\* data object have both been decoded, to a LiquidationEvent.
C6_Witness ==
    /\ dec_msg = Text(JsonText(Envelope(JStr("btcusdt@aggTrade"), GoodForceOrder), "compact"))
    /\ fut_event[1] = "LiquidationEvent"
    /\ bare_event # Nothing

(***************************************************************************)
(* Properties of the HTTP operations.                                      *)
(***************************************************************************)
\* The last operation got a response (the request was sent and answered).
Answered == IsOk(http_response)
Status == http_response[2][1]
Body == http_response[2][2]
Success(st) == st \in 200..299
\* The last operation hands its response to decode_response.
UsesDecoder == http_op[1] \notin {"nothing", "post_listenkey", "put_listenkey"}
Failure(tag) == IsErr(http_result) /\ http_result[2][1] = tag

\* A body that is a JSON object with an integer "code" and a string "msg".
ErrorShaped(body) ==
    /\ body[1] = "json"
    /\ body[2][1] = "object"
    /\ {"code", "msg"} \subseteq DOMAIN body[2][2]
    /\ body[2][2]["code"][1] = "number"
    /\ body[2][2]["msg"][1] = "string"

\* C7: every HTTP operation, post_listenkey and put_listenkey included, that
\* receives a non-2xx response returns Error::ApiError; never Ok, Error::Serde
\* or Error::Decode.
C7_NonSuccessIsApiError ==
    (Answered /\ ~Success(Status)) => Failure("ApiError")

\* C8: decode_response splits on the success class: for every 2xx status the
\* result is Ok(T) or Error::Decode, and Error::ApiError is returned only
\* for statuses that are not 2xx.
C8_SuccessClassNeverApiError ==
    (Answered /\ UsesDecoder /\ Success(Status)) =>
        (IsOk(http_result) \/ Failure("Decode"))

\* C9: for a non-2xx response whose body is a JSON object with an integer
\* "code" and a string "msg", decode_response returns Error::ApiError with
\* exactly that code and msg, and every other field of the body in `other`;
\* never Error::Decode or Error::Serde.
C9_ErrorBodyIsDecoded ==
    (Answered /\ UsesDecoder /\ ~Success(Status) /\ ErrorShaped(Body)) =>
        /\ Failure("ApiError")
        /\ LET e == http_result[2][2]
               o == Body[2][2]
           IN  /\ e[3]["code"] = <<"i64", o["code"][2]>>
               /\ e[3]["msg"] = <<"String", o["msg"][2]>>
               /\ DOMAIN e[4] = DOMAIN o \ {"code", "msg"}
               /\ \A k \in DOMAIN e[4] : e[4][k] = o[k]

C9_Witness ==
    /\ http_op = <<"futures::cancel_order", "CancelOrderResponse">>
    /\ Answered
    /\ Status = 400
    /\ Body = JsonText(Put(ErrorBody, "data", JObj([orderId |-> JNum(13)])), "compact")
    /\ Failure("ApiError")
    /\ http_result[2][2][3]["code"] = <<"i64", -2011>>
    /\ DOMAIN http_result[2][2][4] = {"data"}

\* C10: for a non-2xx response whose body is not of the API Error shape (empty,
\* not JSON, or JSON without an integer code or a string msg), decode_response
\* returns Error::ApiError with code = the HTTP status, msg = the raw body
\* unchanged, and an empty `other` map.
C10_ErrorIsSynthesized ==
    (Answered /\ UsesDecoder /\ ~Success(Status) /\ ~ErrorShaped(Body)) =>
        /\ Failure("ApiError")
        /\ LET e == http_result[2][2]
           IN  /\ e[3]["code"] = <<"i64", Status>>
               /\ e[3]["msg"][1] = "String of text"
               /\ e[3]["msg"][2] = Body
               /\ DOMAIN e[4] = {}

C10_Witness ==
    /\ http_op = <<"spot::post_order", "spot::OrderResponse">>
    /\ Answered
    /\ Status = 502
    /\ Body = BadText("<html>502 Bad Gateway</html>")
    /\ Failure("ApiError")
    /\ http_result[2][2][3]["code"] = <<"i64", 502>>
    /\ http_result[2][2][3]["msg"] = StringOfText(Body)

\* C11: when the status indicates success and the body does not deserialize
\* as T, decode_response returns Error::Decode holding the parse failure and
\* the body unchanged; never Error::ApiError, never a panic.
C11_SuccessBadBodyIsDecodeError ==
    (Answered /\ UsesDecoder /\ Success(Status) /\ IsErr(from_str_as(http_op[2], Body))) =>
        /\ Failure("Decode")
        /\ http_result[2][2] = from_str_as(http_op[2], Body)[2]
        /\ http_result[2][3] = Body

(***************************************************************************)
(* Properties of the requests.                                             *)
(***************************************************************************)
\* A request is in flight.
InFlight == http_pc = "awaiting"
\* The operations that sign through sign_form.
AuthenticatedOps ==
    {"futures::authenticated_get", "futures::cancel_order",
     "futures::cancel_all_open_orders", "futures::post_new_order",
     "spot::authenticated_get", "spot::post_order"}
\* The query string or the body the transport is handed.
Transmitted ==
    IF http_request.body # None THEN http_request.body[2] ELSE http_request.query[2]

\* C12: for every authenticated operation, what the transport is handed is
\* byte for byte what sign_form returned: the signed string followed by
\* "&signature=<sig>".
C12_TransmittedIsSigned ==
    (InFlight /\ http_op[1] \in AuthenticatedOps) =>
        Flat(Transmitted) = Flat(http_request.form[2])

\* The form sign_form is given: the caller's &str for spot authenticated_get,
\* the serde_urlencoded text of the argument for the others.
GivenForm ==
    IF http_op[1] = "spot::authenticated_get" THEN http_request.arg
    ELSE urlencoded(http_request.arg)

\* C13: sign_form returns S & "&signature=" & HMAC(secret, S), where S is the
\* form given, "&recvWindow=1000&timestamp=" and one reading of the clock:
\* the signature is the last field and covers every byte before "&signature=".
C13_SignFormOrder ==
    (InFlight /\ http_op[1] \in AuthenticatedOps) =>
        LET form == http_request.form[2]
            n == Len(form)
        IN  /\ IsOk(http_request.form)
            /\ http_request.at \in 0..clock
            /\ SubSeq(form, 1, n - 2)
                   = GivenForm \o <<"&recvWindow=1000&timestamp=", ToString(http_request.at)>>
            /\ form[n - 1] = "&signature="
            /\ form[n] = hmac(auth[2].api_secret, SubSeq(form, 1, n - 2))

\* C13 witness: post_new_order signed a form at clock 1 and the clock has
\* moved on since.
C13_Witness ==
    /\ InFlight
    /\ http_op[1] = "futures::post_new_order"
    /\ http_request.arg = << << <<"symbol">>, <<"BTC", " ", "USDT">> >> >>
    /\ http_request.at = 1
    /\ clock = 2
    /\ Flat(http_request.form[2])
           = "symbol=BTC+USDT&recvWindow=1000&timestamp=1&signature=hmac(secret,symbol=BTC+USDT&recvWindow=1000&timestamp=1)"

\* C14: a signing path called on a client without credentials returns an
\* error value: no panic, and no request sent.
C14_NoCredentialsIsError ==
    (auth = None /\ http_op[1] \in AuthenticatedOps \cup {"put_listenkey"}) =>
        /\ IsErr(http_result)
        /\ http_pc = "idle"
        /\ http_request = Nothing

\* C15: every signed request, through sign_form or put_listenkey, holds
\* recvWindow, the timestamp read in that call, and the signature last.
C15_SignedRequestHasWindow ==
    (InFlight /\ http_request.form # None) =>
        LET form == http_request.form[2]
            n == Len(form)
        IN  /\ n >= 4
            /\ form[n - 3] = "&recvWindow=1000&timestamp="
            /\ form[n - 2] = ToString(http_request.at)
            /\ form[n - 1] = "&signature="

ApiKeyHeaders == {h \in http_request.headers : h[1] = "X-MBX-APIKEY"}
ContentType == <<"Content-Type", "application/x-www-form-urlencoded">>

\* C16 as stated: every operation of a client with credentials sends
\* X-MBX-APIKEY with its api_key, the public get included; a client without
\* credentials sends no API-key header; a request with a body carries the
\* form content type.
C16_EveryOperationSendsKey ==
    InFlight =>
        /\ auth # None => ApiKeyHeaders = {<<"X-MBX-APIKEY", auth[2].api_key>>}
        /\ auth = None => ApiKeyHeaders = {}
        /\ http_request.body # None => ContentType \in http_request.headers

\* The operations that attach no headers.
PublicOps == {"futures::get", "futures::book_ticker", "spot::get"}

\* C16 amended: the operations that call headers() send X-MBX-APIKEY with the
\* api_key exactly when the client has credentials, and always the form
\* content type; the public operations (futures get, book_ticker, spot get)
\* send no header at all, with or without credentials; every request with a
\* body is of the first kind.
C16_KeyOnlyWhereHeadersAreSet ==
    InFlight =>
        /\ http_op[1] \in PublicOps => http_request.headers = {}
        /\ http_op[1] \notin PublicOps =>
               /\ auth # None => ApiKeyHeaders = {<<"X-MBX-APIKEY", auth[2].api_key>>}
               /\ auth = None => ApiKeyHeaders = {}
               /\ ContentType \in http_request.headers
        /\ http_request.body # None => http_op[1] \notin PublicOps

\* C16 witness: the public futures get of a client with credentials is in
\* flight with no header.
C16_Witness ==
    /\ InFlight
    /\ auth = Credentials
    /\ http_op[1] = "futures::get"
    /\ http_request.headers = {}

(***************************************************************************)
(* Further properties of the receive loop and of the decoders.             *)
(***************************************************************************)
\* The positions of `consumed` holding a text or a ping frame.
SurfacedKinds == {"Text", "Ping"}
TextOrPingAt == {i \in 1..Len(consumed) : IsOk(consumed[i]) /\ consumed[i][2][1] \in SurfacedKinds}

\* C17: next() surfaces text and ping frames only: it has returned as many
\* events as it has read text and ping frames, and no event it returned
\* carries or stands for a binary, pong, close or raw frame.
C17_OnlyTextAndPingSurface ==
    /\ Len(Events) = Cardinality(TextOrPingAt)
    /\ \A i \in 1..Len(Events) :
           LET event == Events[i][2][2]
           IN  /\ event[1] # "panic"
               /\ market = "futures" => event[1] # "Message"
               /\ (market = "spot" /\ event[1] = "Message") => event[2][1] \in SurfacedKinds

\* C17 witness: one call read three skipped frames (binary, pong, close or
\* raw), met the end of the stream and returned None: nothing surfaced.
C17_Witness ==
    /\ Len(consumed) = 3
    /\ \A i \in 1..3 : IsOk(consumed[i]) /\ consumed[i][2][1] \in {"Binary", "Pong", "Close", "Frame"}
    /\ consumed[1] # consumed[2]
    /\ ended
    /\ pc = "idle"
    /\ returned = <<None>>

VariantOf(kind) ==
    CASE kind = "kline" -> <<"Kline", "KlineEvent">>
      [] kind = "aggTrade" -> <<"AggTrade", "AggTrade">>
      [] kind = "ORDER_TRADE_UPDATE" -> <<"OrderTradeUpdate", "OrderTradeUpdateEvent">>
      [] kind = "ACCOUNT_UPDATE" -> <<"AccountUpdate", "futures::AccountUpdate">>
      [] kind = "forceOrder" -> <<"LiquidationEvent", "LiquidationEvent">>
      [] kind = "24hrTicker" -> <<"Ticker", "Ticker">>

\* The object the dispatch works on: the envelope's data, or the document.
Unwrapped(v) == IF EnvelopeShaped(v) THEN v[2]["data"] ELSE v

\* The futures event of a text frame whose unwrapped object has the known
\* discriminator `kind`, when its variant is deserialized from `from`.
DispatchedFrom(kind, from, text) ==
    LET r == from_value(VariantOf(kind)[2], from)
    IN  IF IsOk(r) THEN <<VariantOf(kind)[1], r[2]>> ELSE <<"ParseError", r[2], text>>

\* The last futures decode was of a JSON text whose unwrapped object has a
\* string discriminator.
DispatchCase ==
    /\ dec_msg[1] = "Text"
    /\ dec_msg[2][1] = "json"
    /\ fut_event # Nothing
    /\ Unwrapped(dec_msg[2][2])[1] = "object"
    /\ "e" \in DOMAIN Unwrapped(dec_msg[2][2])[2]
    /\ Unwrapped(dec_msg[2][2])[2]["e"][1] = "string"

\* C19 as stated: the variant is fixed by the discriminator of the unwrapped
\* object, no other discriminator gives a typed variant, and every typed
\* variant is deserialized from the unwrapped object itself.
C19_DispatchFromUnwrappedObject ==
    DispatchCase =>
        LET u == Unwrapped(dec_msg[2][2])
            kind == u[2]["e"][2]
        IN  IF kind \in FuturesKinds
            THEN fut_event = DispatchedFrom(kind, u, dec_msg[2])
            ELSE fut_event = <<"Unknown", dec_msg[2]>>

\* C19 amended: as stated, except that the LiquidationEvent of "forceOrder" is
\* deserialized from the field "o" of the unwrapped object (null when the
\* object has no "o"), not from the object itself.
C19_DispatchForceOrderFromO ==
    DispatchCase =>
        LET u == Unwrapped(dec_msg[2][2])
            kind == u[2]["e"][2]
        IN  IF kind \in FuturesKinds
            THEN fut_event = DispatchedFrom(kind,
                                            IF kind = "forceOrder" THEN Index(u, "o") ELSE u,
                                            dec_msg[2])
            ELSE fut_event = <<"Unknown", dec_msg[2]>>

\* C19 witness: a forceOrder object inside an envelope became a LiquidationEvent.
C19_Witness ==
    /\ DispatchCase
    /\ EnvelopeShaped(dec_msg[2][2])
    /\ Unwrapped(dec_msg[2][2]) = GoodForceOrder
    /\ fut_event[1] = "LiquidationEvent"

SpotTyped(text) ==
    /\ text[1] = "json"
    /\ text[2][1] = "object"
    /\ "e" \in DOMAIN text[2][2]
    /\ text[2][2]["e"][1] = "string"
    /\ \/ text[2][2]["e"][2] = "executionReport" /\ IsOk(from_value("ExecutionReport", text[2]))
       \/ text[2][2]["e"][2] = "outboundAccountPosition"
              /\ IsOk(from_value("spot::AccountUpdate", text[2]))

SpotKinds == {"executionReport", "outboundAccountPosition"}

\* C21: for an object D with a known spot discriminator that the spot
\* decoder turns into a typed event, the decoder returns that same typed
\* event for {"stream": S, "data": D}.
C21_SpotEnvelopeEqualsBare ==
    (/\ IsEnvelopeFrame
     /\ dec_msg[2][2][2]["data"][2]["e"][2] \in SpotKinds
     /\ spot_event # Nothing
     /\ spot_bare # Nothing
     /\ spot_bare[1] \in {"ExecutionReport", "AccountUpdate"})
        => spot_event = spot_bare

(***************************************************************************)
(* Properties of the futures decoder on damaged and enveloped events.      *)
(***************************************************************************)
\* The value decode_data deserializes the variant of `kind` from, given the
\* unwrapped object u.
TypedSource(kind, u) == IF kind = "forceOrder" THEN Index(u, "o") ELSE u

\* C26: a text frame whose (unwrapped) object names a known event kind but
\* does not deserialize into that kind's typed shape comes out of the futures
\* decoder as ParseError carrying the frame's own text: not as Unknown, not
\* as a typed event, not as a panic.
C26_TypedFailureIsParseError ==
    (/\ DispatchCase
     /\ Unwrapped(dec_msg[2][2])[2]["e"][2] \in FuturesKinds
     /\ LET u == Unwrapped(dec_msg[2][2])
            kind == u[2]["e"][2]
        IN  IsErr(from_value(VariantOf(kind)[2], TypedSource(kind, u))))
        => /\ fut_event[1] = "ParseError"
           /\ fut_event[3] = dec_msg[2]

\* C26 witness: an aggTrade object without its price "p" came out as a
\* ParseError with the frame's text.
C26_Witness ==
    /\ dec_msg = Text(JsonText(Drop(GoodAggTrade, "p"), "compact"))
    /\ fut_event[1] = "ParseError"
    /\ fut_event[3] = dec_msg[2]

\* C28: in the futures decoder a document with a string "stream" and a string
\* data.e is classified by its data object, whether or not it also has an
\* outer string "e", and the data object is classified as it stands (a data
\* object that is envelope-shaped itself is not unwrapped again); any other
\* document with a string "e" is classified as it stands; every other
\* document is Unknown.
C28_EnvelopeFirstAndOnce ==
    (dec_msg[1] = "Text" /\ dec_msg[2][1] = "json" /\ fut_event # Nothing) =>
        LET v == dec_msg[2][2]
        IN  IF EnvelopeShaped(v)
            THEN fut_event = unwrap_or_else(decode_data(v[2]["data"]), dec_msg[2])
            ELSE IF v[1] = "object" /\ "e" \in DOMAIN v[2] /\ v[2]["e"][1] = "string"
            THEN fut_event = unwrap_or_else(decode_data(v), dec_msg[2])
            ELSE fut_event = <<"Unknown", dec_msg[2]>>

\* C28 witness: an envelope around a ticker that also carries an outer
\* "e": "aggTrade" was decoded to the Ticker of its data.
C28_Witness ==
    /\ dec_msg = Text(JsonText(Put(Envelope(JStr("btcusdt@aggTrade"), GoodTicker),
                                   "e", JStr("aggTrade")), "compact"))
    /\ fut_event[1] = "Ticker"

(***************************************************************************)
(* Properties of the receive loop: what reaches the decoder.               *)
(***************************************************************************)
\* C27: whatever frames arrive (text, ping, pong, binary, close, raw), the
\* futures next() hands only text and ping frames to Event::decode_message:
\* each event it returned is a variant decode_message builds for a text or
\* a ping, never the outcome of its unreachable!() arm, and it returned one
\* event per text or ping frame read.
C27_UnreachableNeverRuns ==
    market = "futures" =>
        /\ \A i \in 1..Len(returned) :
               (returned[i] # None /\ IsOk(returned[i][2])) =>
                   /\ returned[i][2][2] # Panic("unreachable")
                   /\ returned[i][2][2][1] \in FuturesVariants \ {"Message"}
        /\ Len(Events) = Cardinality(TextOrPingAt)

\* C27 witness: the futures loop read a close, a pong and a text frame in one
\* call and returned the event of the text frame alone.
C27_Witness ==
    /\ market = "futures"
    /\ consumed = <<Ok(Close), Ok(Pong(<<1>>)), Ok(Text(JsonText(GoodAggTrade, "compact")))>>
    /\ Len(returned) = 1
    /\ returned[1][2][2][1] = "AggTrade"

\* The item ends a call of next(): an error, or a text or ping frame.
Returning(item) == IsErr(item) \/ item[2][1] \in SurfacedKinds

\* The stream holds, or will yield without anything more arriving, what ends
\* a call: a returning item on the wire, or its end.
WillYield == ended \/ \E i \in 1..Len(wire) : Returning(wire[i])

\* C29: a call of next() in progress returns once the stream yields a text
\* frame, a ping frame, an error or its end; it returns at no other point (a
\* call ends only on such an item), and on a binary, pong, close or raw frame
\* it reads on without returning anything.
C29_ReturnsIffStreamYields ==
    /\ (pc = "reading" /\ WillYield) ~> (pc = "idle")
    /\ [][(pc = "reading" /\ pc' = "idle") =>
              IF wire = <<>> THEN ended /\ returned' = Append(returned, None)
              ELSE Returning(Head(wire)) /\ consumed' = Append(consumed, Head(wire))]_vars
    /\ [][(pc = "reading" /\ wire # <<>> /\ ~Returning(Head(wire)) /\ wire' = Tail(wire)) =>
              pc' = "reading" /\ returned' = returned]_vars

\* C29 witness: one call read a binary and a raw frame, then the transport
\* error, and returned that error.
C29_Witness ==
    /\ consumed = <<Ok(Binary(<<1>>)), Ok(Frame(<<1>>)), Err("Io")>>
    /\ returned = <<Some(Err("Io"))>>
    /\ pc = "idle"

(***************************************************************************)
(* Properties of both transports: failures.                                *)
(***************************************************************************)
\* The turn of next() that meets an error: it takes that one item off the
\* stream, returns exactly it, writes nothing and ends the call.
ErrorTurn ==
    (pc = "reading" /\ wire # <<>> /\ IsErr(Head(wire)) /\ consumed' # consumed) =>
        /\ returned' = Append(returned, Some(Head(wire)))
        /\ consumed' = Append(consumed, Head(wire))
        /\ wire' = Tail(wire)
        /\ outbound' = outbound
        /\ pc' = "idle"

\* The turn of next() that meets the end of the stream: it returns None, and
\* the stream stays ended and empty.
EndTurn ==
    (pc = "reading" /\ wire = <<>> /\ ended /\ returned' # returned) =>
        /\ returned' = Append(returned, None)
        /\ pc' = "idle"
        /\ ended' /\ wire' = <<>>
        /\ consumed' = consumed

\* Outside a call nothing is read, and a stream that ended stays ended with
\* nothing arriving on it.
NoReadingOutsideCall ==
    /\ pc = "idle" => consumed' = consumed /\ returned' = returned
    /\ ended => ended' /\ Len(wire') <= Len(wire)

\* The return of send().await with a transport failure: the operation ends
\* there with that failure inside Error::Request, and its request is gone.
FailedSend ==
    (http_pc = "awaiting" /\ http_response' # http_response /\ IsErr(http_response')) =>
        /\ http_result' = Err(<<"Request", http_response'[2]>>)
        /\ http_request' = Nothing
        /\ http_pc' = "idle"

\* C22: a transport failure is handed to the caller as it is and nothing is
\* tried again: on an error of the stream next() returns exactly that error
\* and reads no further; on the end of the stream it returns None and the
\* stream is not reopened; an operation whose send fails ends with the
\* transport's error after its one send.
C22_TransportFailureNotRetried ==
    [][ErrorTurn /\ EndTurn /\ NoReadingOutsideCall /\ FailedSend]_vars

\* C22 witness: a call of next() ended with the stream's error while a text
\* frame was still waiting behind it.
C22_Witness ==
    /\ consumed = <<Err("Io")>>
    /\ returned = <<Some(Err("Io"))>>
    /\ pc = "idle"
    /\ wire # <<>>
    /\ IsOk(Head(wire)) /\ Head(wire)[2][1] = "Text"

\* C22 witness on the client: a signed cancel_order was sent once, the send
\* failed, and the operation ended with Error::Request.
C22_WitnessHttp ==
    /\ http_op # Nothing
    /\ http_op[1] = "futures::cancel_order"
    /\ http_response = Err("connect")
    /\ http_result = Err(<<"Request", "connect">>)
    /\ http_pc = "idle"

(***************************************************************************)
(* Properties of the two signing implementations.                          *)
(***************************************************************************)
\* The forms the operations hand to sign_form, and the texts they hand to
\* compute_signature.
SignedForms == {urlencoded(q) : q \in PairLists} \cup RawForms
SignedTexts == SignedForms \cup {to_sign(f, t) : f \in SignedForms, t \in 0..MaxClock}

\* C30: futures::Client's sign_form, compute_signature and headers return
\* what the inner common::Client's return for the same form and timestamp,
\* the futures client's own `auth` equals the inner client's, and so the
\* request authenticated_get builds is the one the inner client would sign.
C30_SigningImplementationsAgree ==
    /\ auth = client_auth
    /\ futures_headers(auth) = headers(client_auth)
    /\ \A f \in SignedTexts : futures_compute_signature(auth, f) = compute_signature(client_auth, f)
    /\ \A f \in SignedForms, t \in 0..MaxClock :
           futures_sign_form(auth, f, t) = sign_form(client_auth, f, t)
    /\ (http_pc = "awaiting" /\ http_op[1] = "futures::authenticated_get") =>
           /\ Ok(http_request.form[2]) =
                  sign_form(client_auth, urlencoded(http_request.arg), http_request.at)
           /\ http_request.headers = headers(client_auth)

\* C30 witness: a futures client with credentials has sent an
\* authenticated_get for a symbol, signed by its own sign_form after the
\* clock moved.
C30_Witness ==
    /\ auth = Credentials
    /\ http_pc = "awaiting"
    /\ http_op[1] = "futures::authenticated_get"
    /\ http_request.arg = << << <<"symbol">>, <<"BTC", " ", "USDT">> >> >>
    /\ http_request.at = 1
    /\ http_request.form = futures_sign_form(auth, urlencoded(http_request.arg), 1)

(***************************************************************************)
(* Properties of concurrent authenticated requests.                        *)
(***************************************************************************)
\* The calls that hold a timestamp, and those that hold a signed form.
Stamped == {t \in 1..NumTasks : tasks[t].pc \in {"stamped", "signed"}}
Signing == {t \in 1..NumTasks : tasks[t].pc = "signed"}

\* What signing the call's own form with the call's own timestamp gives.
OwnSignedForm(t) == sign_form(client_auth, tasks[t].arg, tasks[t].timestamp)

\* C23: under every interleaving of the steps of concurrent authenticated
\* calls on one client, the timestamp a call holds was read during that call
\* (not before it began), the form it sends is its own form with its own
\* timestamp, signed over exactly that text, and no step changes the
\* client's credentials.
C23_EachRequestSignsItsOwn ==
    /\ [](\A t \in Stamped :
             /\ tasks[t].begun <= tasks[t].timestamp
             /\ tasks[t].timestamp <= clock)
    /\ [](\A t \in Signing : tasks[t].signed = OwnSignedForm(t))
    /\ [][auth' = auth /\ client_auth' = client_auth]_vars

\* C23 witness: two calls hold signed forms at once, over different forms
\* and with timestamps read at different times, each its own.
C23_Witness ==
    /\ auth = Credentials
    /\ Signing = {1, 2}
    /\ tasks[1].arg # tasks[2].arg
    /\ tasks[1].timestamp = 0 /\ tasks[2].timestamp = 2
    /\ tasks[2].begun = 1
    /\ tasks[1].signed # tasks[2].signed
    /\ tasks[1].signed = OwnSignedForm(1)
    /\ tasks[2].signed = OwnSignedForm(2)

\* The signature of a signed form: what follows "&signature=".
SignatureOf(signed) == signed[2][Len(signed[2])]

\* C24: signing is a function of the body, the secret and the timestamp: two
\* signing runs over the same body with the same timestamp (and the client's
\* one secret) return the same signed form and the same signature, whichever
\* operation ran them, whenever they began and whatever the clock reads when
\* they sign; and the result is the one given by the body, the secret and the
\* timestamp alone, the API key playing no part.
C24_SigningIsDeterministic ==
    /\ \A t, u \in Signing :
           (tasks[t].arg = tasks[u].arg /\ tasks[t].timestamp = tasks[u].timestamp) =>
               /\ tasks[t].signed = tasks[u].signed
               /\ IsOk(tasks[t].signed) => SignatureOf(tasks[t].signed) = SignatureOf(tasks[u].signed)
    /\ \A t \in Signing :
           auth # None =>
               tasks[t].signed =
                   sign_form(Some([api_key |-> "another key", api_secret |-> auth[2].api_secret]),
                             tasks[t].arg, tasks[t].timestamp)

\* C24 witness: two runs over the same body with the same timestamp, one by
\* each operation, begun at different times and signed after the clock moved
\* on, hold the same signed form.
C24_Witness ==
    /\ auth = Credentials
    /\ Signing = {1, 2}
    /\ tasks[1].op # tasks[2].op
    /\ tasks[1].arg = tasks[2].arg /\ tasks[1].arg # <<>>
    /\ tasks[1].timestamp = 1 /\ tasks[2].timestamp = 1
    /\ tasks[1].begun = 0 /\ tasks[2].begun = 1
    /\ clock = 2
    /\ tasks[1].signed = tasks[2].signed

(***************************************************************************)
(* Properties of Interval.                                                 *)
(***************************************************************************)
\* The six known strings with their variants.
KnownIntervals ==
    {<< <<"1", "m">>, "OneMinute">>, << <<"3", "m">>, "ThreeMinute">>,
     << <<"5", "m">>, "FiveMinute">>, << <<"1", "5", "m">>, "FifteenMinute">>,
     << <<"1", "h">>, "OneHour">>, << <<"4", "h">>, "FourHour">>}

\* C25: the text displayed for from_str_non_strict(s) is s: each of the six
\* known strings is parsed to its named variant and displayed as itself, and
\* every other string is kept as it is in Other and displayed as itself.
C25_DisplayGivesBackTheString ==
    /\ iv_parsed # Nothing =>
           IF \E k \in KnownIntervals : k[1] = iv_input
           THEN \E k \in KnownIntervals : k[1] = iv_input /\ iv_parsed = <<k[2]>>
           ELSE iv_parsed = <<"Other", iv_input>>
    /\ iv_shown # Nothing => iv_shown = iv_input

\* C25 witness: "15m" was parsed to FifteenMinute and displayed as "15m".
C25_Witness ==
    /\ iv_input = <<"1", "5", "m">>
    /\ iv_parsed = <<"FifteenMinute">>
    /\ iv_shown = <<"1", "5", "m">>

\* C25 witness for a string that is no known interval: "1M" is kept in Other.
C25_WitnessOther ==
    /\ iv_input = <<"1", "M">>
    /\ iv_parsed = <<"Other", <<"1", "M">>>>
    /\ iv_shown = iv_input

====
